---- MODULE Spec2Model ----
(***************************************************************************)
(* A state-machine model of S3MPython: the publish lifecycle of the        *)
(* eXtended data types (xdt.py), the structural items (struct.py), the     *)
(* meta types (meta.py) and the data model root (dm.py).                   *)
(*                                                                         *)
(* Every property setter of the Python code is an operator that takes the  *)
(* program state S and the assigned value v and returns the state the      *)
(* setter leaves behind together with the exception it raised, if any.     *)
(* The actions apply these operators to the variables.                     *)
(***************************************************************************)
EXTENDS Integers, Sequences, FiniteSets, TLC

VARIABLES xd, ad, cl, mt, dm, cuids, out, last

vars == <<xd, ad, cl, mt, dm, cuids, out, last>>

(***************************************************************************)
(* Bounds of the model.                                                    *)
(***************************************************************************)
MaxItems == 2      \* longest ClusterType item list explored
MaxDocs == 1       \* most 'Definition:' lines appended to a ClusterType docs
MaxPO == 1         \* longest pred_obj_list explored
MaxEv == 1         \* longest ev list explored
MaxCuid == 3       \* most identifiers drawn from cuid() after construction

(***************************************************************************)
(* The objects of a run.  Python creates objects freely; a run of the      *)
(* model works on this fixed population, every object freshly constructed. *)
(***************************************************************************)
XdIds == {"x1", "x2"}
AdIds == {"a1", "a2"}
ClIds == {"c1", "c2"}
MetaIds == {"m1"}
\* further leaf types, used on their own: an XdIntervalType, an
\* XdBooleanType and an XdLinkType
LeafIds == {"x3", "x4", "x5", "x6", "x7"}
DmId == "dm"
CompIds == XdIds \cup AdIds \cup ClIds \cup MetaIds

ClassOf(id) ==
    CASE id = "x1" -> "XdStringType"
      [] id = "x2" -> "XdCountType"
      [] id = "x3" -> "XdIntervalType"
      [] id = "x4" -> "XdBooleanType"
      [] id = "x5" -> "XdLinkType"
      [] id = "x6" -> "XdOrdinalType"
      [] id = "x7" -> "XdRatioType"
      [] id \in AdIds -> "XdAdapterType"
      [] id \in ClIds -> "ClusterType"
      [] id \in MetaIds -> "PartyType"
      [] id = DmId -> "DMType"
      [] OTHER -> "str"

IsXdAnyType(id) == id \in XdIds
IsItemType(id) == id \in AdIds \cup ClIds

(***************************************************************************)
(* Python values handed to a setter: a type tag, a string payload and an   *)
(* integer payload.  A reference to one of the objects carries the         *)
(* object's class as its tag and the object's name as its payload.         *)
(***************************************************************************)
PyNone == [t |-> "NoneType", s |-> "", n |-> 0]
PyStr(s) == [t |-> "str", s |-> s, n |-> 0]
PyInt(n) == [t |-> "int", s |-> "", n |-> n]
PyDec(n) == [t |-> "Decimal", s |-> "", n |-> n]
PyBool(b) == [t |-> "bool", s |-> "", n |-> IF b THEN 1 ELSE 0]
PyRef(id) == [t |-> ClassOf(id), s |-> id, n |-> 0]
PyEmptyList == [t |-> "list", s |-> "", n |-> 0]
PyTuple2(s) == [t |-> "tuple", s |-> s, n |-> 2]
\* a tuple of two ints (lo, hi), 0 <= lo, hi <= 9
PyIntPair(lo, hi) == [t |-> "tuple", s |-> "ints", n |-> lo * 10 + hi]
PairLo(v) == v.n \div 10
PairHi(v) == v.n % 10
\* a list of n tuples (enumeration, definition) of strings
PyEnumList(n) == [t |-> "list", s |-> "enums", n |-> n]
\* a list whose element is not a tuple
PyBadList == [t |-> "list", s |-> "ints", n |-> 1]

IsRef(v) == v.s \in CompIds \cup {DmId} /\ v.t = ClassOf(v.s)

\* cuid() gives every object its own identifiers; the k-th identifier drawn
\* after construction is the string Cuid(k)
Cuid(k) == [t |-> "str", s |-> "cuid", n |-> k]
NoId == <<"None", "">>
Mcuid(id) == <<"mcuid", id>>
Acuid(id) == <<"acuid", id>>

None == "None"

(***************************************************************************)
(* Outcome of a call: the state left behind and the exception raised.      *)
(***************************************************************************)
Ok(S) == [S |-> S, err |-> "none", msg |-> ""]
Raise(S, e, m) == [S |-> S, err |-> e, msg |-> m]

State == [xd |-> xd, ad |-> ad, cl |-> cl, mt |-> mt, dm |-> dm, cuids |-> cuids]

MsgPublished == "The model has been published and cannot be edited."
MsgNotPublished == "The model has not been published."
MsgOnce == "the published value cannot be changed once published."
MsgNotWrapped == "has not been published and therefore cannot be wrapped in a XdAdapter."

(***************************************************************************)
(* validator_collection.checkers                                           *)
(***************************************************************************)
ValidUrl == "http://a.org/def"
BadUrl == "not a url"
is_url(s) == s = ValidUrl
is_string(v) == v.t = "str"

(***************************************************************************)
(* Cardinality: utils.valid_cardinality and the cardinality setters.       *)
(* Decimal('Infinity') is the number INF, larger than every count used.    *)
(***************************************************************************)
INF == 1000
PyInf == PyDec(INF)

UnboundedKeys == {"referencerange"}
BinaryKeys ==
    {"act", "ev", "vtb", "vte", "tr", "modified", "location", "relation_uri",
     "value", "units", "size", "encoding", "language", "formalism",
     "media_type", "compression_type", "link", "hash_result", "hash_function",
     "alt_txt", "normal_status", "magnitude_status", "error", "accuracy",
     "numerator", "denominator", "numerator_units", "denominator_units",
     "ratio_units", "date", "time", "datetime", "day", "month", "year",
     "year_month", "month_day", "duration", "view", "proof", "reason",
     "committer", "committed", "system_user", "performer", "function", "mode",
     "start", "end", "party_name", "party_ref", "party_details"}
TableKeys == BinaryKeys \cup UnboundedKeys

\* the dictionary c of valid_cardinality: key -> ((lower, upper) of minOccurs, (lower, upper) of maxOccurs)
CardTable ==
    [k \in TableKeys |->
        IF k \in UnboundedKeys THEN <<<<0, 1>>, <<0, INF>>>>
        ELSE <<<<0, 1>>, <<0, 1>>>>]

IsPyInt(v) == v.t \in {"int", "bool"}
IsPyNum(v) == v.t \in {"int", "bool", "Decimal"}

\* "none" when the function returns True, otherwise the exception it raises
valid_cardinality(k, lo, hi) ==
    IF ~(k.t = "str" /\ k.s \in TableKeys)
    THEN "ValueError"
    ELSE IF lo.n < CardTable[k.s][1][1] \/ lo.n > CardTable[k.s][1][2]
         THEN "ValueError"
         ELSE IF hi.n < CardTable[k.s][2][1] \/ hi.n > CardTable[k.s][2][2]
              THEN "ValueError"
              ELSE "none"

\* The dictionary _cardinality: a function on the keys it holds.
CardGet(card, k) == IF k \in DOMAIN card THEN card[k] ELSE <<PyNone, PyNone>>
CardPut(card, k, pair) == [x \in (DOMAIN card) \cup {k} |-> IF x = k THEN pair ELSE card[x]]

\* Body of the cardinality setter below its publication check; typeErr is
\* the exception class of the "must be integers or None" branch.
cardinality_body(card, k, lo, hi, typeErr) ==
    IF ~(k.t = "str")
    THEN [card |-> card, err |-> "ValueError", msg |-> "The cardinality value is malformed."]
    ELSE LET lo1 == IF lo.t = "NoneType" THEN PyInf ELSE lo
             hi1 == IF hi.t = "NoneType" THEN PyInf ELSE hi
         IN  IF IsPyNum(lo1) /\ IsPyNum(hi1)
             THEN IF IsPyInt(lo1) /\ IsPyInt(hi1) /\ lo1.n > hi1.n
                  THEN [card |-> card, err |-> "ValueError",
                        msg |-> "The minimum value must be less than or equal to the maximum value."]
                  ELSE IF valid_cardinality(k, lo1, hi1) = "none"
                       THEN [card |-> CardPut(card, k.s, <<lo1, hi1>>), err |-> "none", msg |-> ""]
                       ELSE [card |-> card, err |-> valid_cardinality(k, lo1, hi1),
                             msg |-> "out of range or not a valid cardinality setting"]
             ELSE [card |-> card, err |-> typeErr,
                   msg |-> "The cardinality values must be integers or None."]

XdAnyType_cardinality(S, x, k, lo, hi) ==
    IF ~S.xd[x].published
    THEN LET r == cardinality_body(S.xd[x].cardinality, k, lo, hi, "TypeError")
         IN  [S |-> [S EXCEPT !.xd[x].cardinality = r.card], err |-> r.err, msg |-> r.msg]
    ELSE Raise(S, "PublicationError", MsgPublished)

MetaCommon_cardinality(S, m, k, lo, hi) ==
    IF ~S.mt[m].published
    THEN LET r == cardinality_body(S.mt[m].cardinality, k, lo, hi, "ValueError")
         IN  [S |-> [S EXCEPT !.mt[m].cardinality = r.card], err |-> r.err, msg |-> r.msg]
    ELSE Raise(S, "ValueError", MsgPublished)

\* The cardinality dictionary a constructor leaves: the literal of
\* XdAnyType.__init__ and then one setter call per subclass statement.
RECURSIVE CardAfter(_, _)
CardAfter(card, calls) ==
    IF calls = <<>> THEN card
    ELSE CardAfter(cardinality_body(card, PyStr(calls[1][1]), calls[1][2], calls[1][3], "TypeError").card,
                   Tail(calls))

XdAnyCard ==
    [k \in {"act", "ev", "vtb", "vte", "tr", "modified", "location"} |->
        IF k = "ev" THEN <<PyInt(0), PyNone>> ELSE <<PyInt(0), PyInt(1)>>]

XdStringCard ==
    CardAfter(XdAnyCard, << <<"value", PyInt(0), PyInt(1)>>, <<"language", PyInt(0), PyInt(1)>> >>)

XdCountCard ==
    CardAfter(XdAnyCard,
        << <<"referencerange", PyInt(0), PyNone>>, <<"normal_status", PyInt(0), PyInt(1)>>,
           <<"magnitude_status", PyInt(0), PyInt(1)>>, <<"error", PyInt(0), PyInt(1)>>,
           <<"accuracy", PyInt(0), PyInt(1)>>, <<"value", PyInt(0), PyInt(1)>>,
           <<"units", PyInt(1), PyInt(1)>> >>)

PartyCard ==
    CardAfter(<<>>, << <<"party_name", PyInt(0), PyInt(1)>>, <<"party_ref", PyInt(0), PyInt(1)>>,
                       <<"party_details", PyInt(0), PyInt(1)>> >>)

(***************************************************************************)
(* Constructors: the state of each object right after __init__.            *)
(***************************************************************************)
XdAnyType_init(card) ==
    [published |-> FALSE, adapter |-> FALSE, docs |-> "", definition_url |-> "",
     pred_obj_list |-> <<>>, cardinality |-> card,
     act |-> PyNone, ev |-> <<>>, vtb |-> PyNone, vte |-> PyNone, tr |-> PyNone,
     modified |-> PyNone, latitude |-> PyNone, longitude |-> PyNone,
     value |-> PyNone, units |-> None, error |-> PyNone, accuracy |-> PyNone,
     length |-> PyNone, regex |-> PyNone, enums |-> PyEmptyList, default |-> PyNone,
     min_inclusive |-> PyNone, max_inclusive |-> PyNone,
     min_exclusive |-> PyNone, max_exclusive |-> PyNone, total_digits |-> PyNone]

XdAdapterType_init ==
    [published |-> FALSE, value |-> None, mcuid |-> NoId, label |-> "Empty XdAdapter"]

ClusterType_init ==
    [published |-> FALSE, items |-> <<>>, docs |-> <<"">>, definition_url |-> "",
     pred_obj_list |-> <<>>]

MetaCommon_init(card) ==
    [published |-> FALSE, language |-> "", docs |-> "", pred_obj_list |-> <<>>,
     definition_url |-> "", cardinality |-> card]

\* genMD(): every entry has a default; the identifier is 'dm-' + self.mcuid
DMType_genMD(mcuid) ==
    [creator |-> "Unknown", contribs |-> <<>>, subject |-> "S3M Data Model Example",
     rights |-> "Creative Commons", relation |-> "None", coverage |-> "Global",
     description |-> "Needs a description.", publisher |-> "Data Insights, Inc.",
     language |-> "en-US", identifier |-> <<"dm-", mcuid>>]

DMType_init ==
    [published |-> FALSE, data |-> None, written |-> FALSE,
     mcuid |-> Mcuid(DmId), metadata |-> DMType_genMD(Mcuid(DmId))]

\* XdIntervalType(label, int)
XdIntervalType_init ==
    [published |-> FALSE, adapter |-> FALSE, docs |-> "", definition_url |-> "",
     pred_obj_list |-> <<>>, cardinality |-> XdAnyCard,
     act |-> PyNone, ev |-> <<>>, vtb |-> PyNone, vte |-> PyNone, tr |-> PyNone,
     modified |-> PyNone, latitude |-> PyNone, longitude |-> PyNone,
     lower |-> PyNone, upper |-> PyNone,
     interval_type |-> "int", interval_units |-> PyNone, units_id |-> PyNone]

\* XdBooleanType(label, {'trues': ['yes'], 'falses': ['no']})
XdBooleanType_init ==
    [published |-> FALSE, adapter |-> FALSE, docs |-> "", definition_url |-> "",
     pred_obj_list |-> <<>>, cardinality |-> XdAnyCard,
     act |-> PyNone, ev |-> <<>>, vtb |-> PyNone, vte |-> PyNone, tr |-> PyNone,
     modified |-> PyNone, latitude |-> PyNone, longitude |-> PyNone,
     options |-> [trues |-> <<"yes">>, falses |-> <<"no">>],
     true_value |-> PyNone, false_value |-> PyNone]

XdLinkType_init ==
    [published |-> FALSE, adapter |-> FALSE, docs |-> "", definition_url |-> "",
     pred_obj_list |-> <<>>,
     cardinality |-> CardAfter(XdAnyCard, << <<"relation_uri", PyInt(0), PyInt(1)>>,
                                             <<"link", PyInt(0), PyInt(1)>> >>),
     act |-> PyNone, ev |-> <<>>, vtb |-> PyNone, vte |-> PyNone, tr |-> PyNone,
     modified |-> PyNone, latitude |-> PyNone, longitude |-> PyNone,
     fixed |-> FALSE, link |-> "", relation |-> PyNone, relation_uri |-> PyNone]

\* XdOrdinalType(label, {0: ('neg', uri), 1: ('trace', uri)}): the choices
\* in the order of their keys, each <<ordinal, symbol, uri>>; XdOrderedType
\* adds referencerange and normal_status to the cardinality
XdOrdinalType_init ==
    [published |-> FALSE, adapter |-> FALSE, docs |-> "", definition_url |-> "",
     pred_obj_list |-> <<>>,
     cardinality |-> CardAfter(XdAnyCard, << <<"referencerange", PyInt(0), PyNone>>,
                                             <<"normal_status", PyInt(0), PyInt(1)>> >>),
     act |-> PyNone, ev |-> <<>>, vtb |-> PyNone, vte |-> PyNone, tr |-> PyNone,
     modified |-> PyNone, latitude |-> PyNone, longitude |-> PyNone,
     normal_status |-> PyNone, ordinal |-> PyNone, symbol |-> PyNone,
     choices |-> << <<0, "neg", "http://a.org/neg">>, <<1, "trace", "http://a.org/trace">> >>]

\* XdRatioType(label), through XdOrderedType and XdQuantifiedType
XdRatioType_init ==
    [published |-> FALSE, adapter |-> FALSE, docs |-> "", definition_url |-> "",
     pred_obj_list |-> <<>>,
     cardinality |-> CardAfter(XdAnyCard,
        << <<"referencerange", PyInt(0), PyNone>>, <<"normal_status", PyInt(0), PyInt(1)>>,
           <<"magnitude_status", PyInt(0), PyInt(1)>>, <<"error", PyInt(0), PyInt(1)>>,
           <<"accuracy", PyInt(0), PyInt(1)>>, <<"numerator", PyInt(0), PyInt(1)>>,
           <<"denominator", PyInt(0), PyInt(1)>>, <<"value", PyInt(0), PyInt(1)>>,
           <<"numerator_units", PyInt(0), PyInt(1)>>,
           <<"denominator_units", PyInt(0), PyInt(1)>>,
           <<"ratio_units", PyInt(0), PyInt(1)>> >>),
     act |-> PyNone, ev |-> <<>>, vtb |-> PyNone, vte |-> PyNone, tr |-> PyNone,
     modified |-> PyNone, latitude |-> PyNone, longitude |-> PyNone,
     normal_status |-> PyNone, error |-> PyNone, accuracy |-> PyNone,
     num_min_inclusive |-> PyNone, num_max_inclusive |-> PyNone,
     num_min_exclusive |-> PyNone, num_max_exclusive |-> PyNone,
     den_min_inclusive |-> PyNone, den_max_inclusive |-> PyNone,
     den_min_exclusive |-> PyNone, den_max_exclusive |-> PyNone]

Leaf_init(x) ==
    CASE ClassOf(x) = "XdIntervalType" -> XdIntervalType_init
      [] ClassOf(x) = "XdBooleanType" -> XdBooleanType_init
      [] ClassOf(x) = "XdLinkType" -> XdLinkType_init
      [] ClassOf(x) = "XdOrdinalType" -> XdOrdinalType_init
      [] ClassOf(x) = "XdRatioType" -> XdRatioType_init

LabelOf(id) == <<"label", id>>

(***************************************************************************)
(* The published flag (xdt.py, struct.py, meta.py): three copies of the    *)
(* same setter.                                                            *)
(***************************************************************************)
XdAnyType_published_mut(S, x, v) ==
    IF v.t = "bool"
    THEN Ok([S EXCEPT !.xd[x].published = (v.n = 1)])
    ELSE Raise(S, "TypeError", "the published value must be a boolean.")

XdAnyType_published(S, x, v) ==
    IF v.t = "bool"
    THEN IF S.xd[x].published = FALSE
         THEN Ok([S EXCEPT !.xd[x].published = (v.n = 1)])
         ELSE Raise(S, "ValueError", MsgOnce)
    ELSE Raise(S, "TypeError", "the published value must be a boolean.")

ItemType_published(S, i, v) ==
    IF v.t = "bool"
    THEN IF (IF i \in AdIds THEN S.ad[i].published ELSE S.cl[i].published) = FALSE
         THEN Ok(IF i \in AdIds THEN [S EXCEPT !.ad[i].published = (v.n = 1)]
                                ELSE [S EXCEPT !.cl[i].published = (v.n = 1)])
         ELSE Raise(S, "ValueError", MsgOnce)
    ELSE Raise(S, "TypeError", "the published value must be a boolean.")

MetaCommon_published(S, m, v) ==
    IF v.t = "bool"
    THEN IF S.mt[m].published = FALSE
         THEN Ok([S EXCEPT !.mt[m].published = (v.n = 1)])
         ELSE Raise(S, "ValueError", MsgOnce)
    ELSE Raise(S, "TypeError", "the published value must be a boolean.")

\* the published property of any component
Published(S, id) ==
    CASE id \in XdIds \cup LeafIds -> S.xd[id].published
      [] id \in AdIds -> S.ad[id].published
      [] id \in ClIds -> S.cl[id].published
      [] id \in MetaIds -> S.mt[id].published

\* assignment  id.published = v  dispatched on the class of id
published_set(S, id, v) ==
    CASE id \in XdIds \cup LeafIds -> XdAnyType_published(S, id, v)
      [] id \in AdIds \cup ClIds -> ItemType_published(S, id, v)
      [] id \in MetaIds -> MetaCommon_published(S, id, v)

(***************************************************************************)
(* Definitional setters of XdAnyType (xdt.py).                             *)
(***************************************************************************)
XdAnyType_docs(S, x, v) ==
    IF ~S.xd[x].published
    THEN IF is_string(v)
         THEN Ok([S EXCEPT !.xd[x].docs = v.s])
         ELSE Raise(S, "ValueError", "the Documentation value must be a string.")
    ELSE Raise(S, "PublicationError", MsgPublished)

\* v is the empty list, a tuple of two strings, or something else
pred_obj_list_body(pol, v) ==
    IF v.t = "list" /\ v.n = 0
    THEN [pol |-> <<>>, err |-> "none"]
    ELSE IF v.t = "tuple" /\ v.n = 2
         THEN [pol |-> Append(pol, v.s), err |-> "none"]
         ELSE [pol |-> pol, err |-> "ValueError"]

XdAnyType_pred_obj_list(S, x, v) ==
    IF ~S.xd[x].published
    THEN LET r == pred_obj_list_body(S.xd[x].pred_obj_list, v)
         IN  [S |-> [S EXCEPT !.xd[x].pred_obj_list = r.pol], err |-> r.err,
              msg |-> IF r.err = "none" THEN "" ELSE "the Predicate Object List value must be a tuple of two strings or an empty list."]
    ELSE Raise(S, "PublicationError", MsgPublished)

XdAnyType_definition_url_mut(S, x, v) ==
    IF is_string(v) /\ is_url(v.s)
    THEN Ok([S EXCEPT !.xd[x].definition_url = v.s])
    ELSE Raise(S, "ValueError", "the Definition URL value must be a valid URL.")

XdAnyType_definition_url(S, x, v) ==
    IF ~S.xd[x].published
    THEN IF is_string(v) /\ is_url(v.s)
         THEN Ok([S EXCEPT !.xd[x].definition_url = v.s])
         ELSE Raise(S, "ValueError", "the Definition URL value must be a valid URL.")
    ELSE Raise(S, "PublicationError", MsgPublished)

(***************************************************************************)
(* Instance setters of XdAnyType (xdt.py).                                 *)
(***************************************************************************)
ACS == {"Public", "Private", "Secret", "PII"}

PyDateTime(s) == [t |-> "datetime", s |-> s, n |-> 0]

\* the strings random_dtstr() returns: '%Y-%m-%dT%H:%M:%S' between 1970 and 2015
DtStrs == {"1970-01-01T00:00:00", "2015-12-31T00:00:00"}
\* str(float(n)), the strings get_latlon() returns
PyNumStr(n) == [t |-> "str", s |-> "number", n |-> n]

\* the checkers accept a value of the type and a string that parses as one
is_datetime(v) == v.t = "datetime" \/ (v.t = "str" /\ v.s \in DtStrs)
is_decimal(v, minimum, maximum) ==
    /\ (IsPyNum(v) /\ v.t # "bool") \/ (v.t = "str" /\ v.s = "number")
    /\ minimum <= v.n /\ v.n <= maximum
is_ExceptionalValue(v) == v.t = "ExceptionalValue"

XdAnyType_act(S, x, v) ==
    IF S.xd[x].published
    THEN IF is_string(v)
         THEN IF v.s \in ACS
              THEN Ok([S EXCEPT !.xd[x].act = v])
              ELSE Raise(S, "ValueError", "The act value must be in the Access Control System list.")
         ELSE Raise(S, "ValueError", "the Access Control Tag value must be a string.")
    ELSE Raise(S, "PublicationError", MsgNotPublished)

XdAnyType_ev(S, x, v) ==
    IF S.xd[x].published
    THEN IF is_ExceptionalValue(v)
         THEN Ok([S EXCEPT !.xd[x].ev = Append(@, v.s)])
         ELSE Raise(S, "ValueError", "the ev value must be an ExceptionalValue.")
    ELSE Raise(S, "PublicationError", MsgNotPublished)

XdAnyType_vtb(S, x, v) ==
    IF S.xd[x].published
    THEN IF is_datetime(v)
         THEN Ok([S EXCEPT !.xd[x].vtb = v])
         ELSE Raise(S, "ValueError", "the Valid Time Begin value must be a datetime.")
    ELSE Raise(S, "PublicationError", MsgNotPublished)

XdAnyType_vte(S, x, v) ==
    IF S.xd[x].published
    THEN IF is_datetime(v)
         THEN Ok([S EXCEPT !.xd[x].vte = v])
         ELSE Raise(S, "ValueError", "the Valid Time End value must be a datetime.")
    ELSE Raise(S, "PublicationError", MsgNotPublished)

XdAnyType_tr(S, x, v) ==
    IF S.xd[x].published
    THEN IF is_datetime(v)
         THEN Ok([S EXCEPT !.xd[x].tr = v])
         ELSE Raise(S, "ValueError", "the Time Recorded value must be a datetime.")
    ELSE Raise(S, "PublicationError", MsgNotPublished)

XdAnyType_modified(S, x, v) ==
    IF S.xd[x].published
    THEN IF is_datetime(v)
         THEN Ok([S EXCEPT !.xd[x].modified = v])
         ELSE Raise(S, "ValueError", "the Modified value must be a datetime.")
    ELSE Raise(S, "PublicationError", MsgNotPublished)

XdAnyType_latitude(S, x, v) ==
    IF S.xd[x].published
    THEN IF is_decimal(v, -90, 90)
         THEN Ok([S EXCEPT !.xd[x].latitude = v])
         ELSE Raise(S, "ValueError", "the Latitude value must be a decimal between -90.00 and 90.00.")
    ELSE Raise(S, "PublicationError", MsgNotPublished)

XdAnyType_longitude(S, x, v) ==
    IF S.xd[x].published
    THEN IF is_decimal(v, -180, 180)
         THEN Ok([S EXCEPT !.xd[x].longitude = v])
         ELSE Raise(S, "ValueError", "the Longitude value must be a decimal between -180.00 and 180.00.")
    ELSE Raise(S, "PublicationError", MsgNotPublished)

(***************************************************************************)
(* XdStringType and XdCountType (xdt.py).                                  *)
(***************************************************************************)
XdStringType_value_mut(S, x, v) ==
    IF is_string(v)
    THEN Ok([S EXCEPT !.xd[x].value = v])
    ELSE Raise(S, "TypeError", "the value must be a string.")

XdStringType_value(S, x, v) ==
    IF S.xd[x].published
    THEN IF is_string(v)
         THEN Ok([S EXCEPT !.xd[x].value = v])
         ELSE Raise(S, "TypeError", "the value must be a string.")
    ELSE Raise(S, "PublicationError", MsgNotPublished)

\* number of decimal digits of a >= 0
RECURSIVE Digits(_)
Digits(a) == IF a < 10 THEN 1 ELSE 1 + Digits(a \div 10)

\* len(str(v)) of an int or of None
StrLen(v) ==
    IF v.t = "NoneType" THEN 4
    ELSE LET a == IF v.n < 0 THEN 0 - v.n ELSE v.n
             d == Digits(a)
         IN  IF v.n < 0 THEN d + 1 ELSE d

\* XdCountType.value without the max_inclusive test
XdCountType_value_mut(S, x, v) ==
    LET o == S.xd[x]
        bounded == o.min_inclusive # PyNone \/ o.max_inclusive # PyNone
                   \/ o.min_exclusive # PyNone \/ o.max_exclusive # PyNone
    IN
    IF o.published
    THEN IF IsPyInt(v) \/ v.t = "NoneType"
         THEN IF v.t = "NoneType" /\ bounded
              THEN Raise(S, "TypeError", "'<' not supported between instances of 'NoneType' and 'int'")
              ELSE IF o.min_inclusive # PyNone /\ v.n < o.min_inclusive.n
              THEN Raise(S, "ValueError", "The value cannot be less than min_inclusive")
              ELSE IF o.min_exclusive # PyNone /\ v.n <= o.min_exclusive.n
              THEN Raise(S, "ValueError", "The value cannot be equal to or less than min_exclusive")
              ELSE IF o.max_exclusive # PyNone /\ v.n >= o.max_exclusive.n
              THEN Raise(S, "ValueError", "The value cannot be equal to or exceed max_exclusive")
              ELSE IF o.total_digits # PyNone /\ StrLen(v) > o.total_digits.n
              THEN Raise(S, "ValueError", "The value length cannot exceed total_digits")
              ELSE Ok([S EXCEPT !.xd[x].value = v])
         ELSE Raise(S, "TypeError", "The value value must be an integer.")
    ELSE Raise(S, "PublicationError", MsgNotPublished)

XdCountType_value(S, x, v) ==
    LET o == S.xd[x]
        bounded == o.min_inclusive # PyNone \/ o.max_inclusive # PyNone
                   \/ o.min_exclusive # PyNone \/ o.max_exclusive # PyNone
    IN
    IF o.published
    THEN IF IsPyInt(v) \/ v.t = "NoneType"
         THEN IF v.t = "NoneType" /\ bounded
              THEN Raise(S, "TypeError", "'<' not supported between instances of 'NoneType' and 'int'")
              ELSE IF o.min_inclusive # PyNone /\ v.n < o.min_inclusive.n
              THEN Raise(S, "ValueError", "The value cannot be less than min_inclusive")
              ELSE IF o.max_inclusive # PyNone /\ v.n > o.max_inclusive.n
              THEN Raise(S, "ValueError", "The value cannot exceed max_inclusive")
              ELSE IF o.min_exclusive # PyNone /\ v.n <= o.min_exclusive.n
              THEN Raise(S, "ValueError", "The value cannot be equal to or less than min_exclusive")
              ELSE IF o.max_exclusive # PyNone /\ v.n >= o.max_exclusive.n
              THEN Raise(S, "ValueError", "The value cannot be equal to or exceed max_exclusive")
              ELSE IF o.total_digits # PyNone /\ StrLen(v) > o.total_digits.n
              THEN Raise(S, "ValueError", "The value length cannot exceed total_digits")
              ELSE Ok([S EXCEPT !.xd[x].value = v])
         ELSE Raise(S, "TypeError", "The value value must be an integer.")
    ELSE Raise(S, "PublicationError", MsgNotPublished)

\* units is an XdStringType or is reset to None before the TypeError
XdCountType_units(S, x, v) ==
    IF ~S.xd[x].published
    THEN IF v.t = "XdStringType"
         THEN Ok([S EXCEPT !.xd[x].units = v.s])
         ELSE Raise([S EXCEPT !.xd[x].units = None], "TypeError",
                    "The units value must be a XdStringType identifying the things to be counted.")
    ELSE Raise(S, "PublicationError", MsgPublished)

\* the five bound setters of XdCountType share one body
XdCountType_bound(S, x, v, S2, msg) ==
    IF ~S.xd[x].published
    THEN IF IsPyInt(v) \/ v.t = "NoneType"
         THEN Ok(S2)
         ELSE Raise(S, "TypeError", msg)
    ELSE Raise(S, "PublicationError", MsgPublished)

XdCountType_min_inclusive(S, x, v) ==
    XdCountType_bound(S, x, v, [S EXCEPT !.xd[x].min_inclusive = v],
                      "The min_inclusive value must be an integer.")
XdCountType_max_inclusive(S, x, v) ==
    XdCountType_bound(S, x, v, [S EXCEPT !.xd[x].max_inclusive = v],
                      "The max_inclusive value must be an integer.")
XdCountType_min_exclusive(S, x, v) ==
    XdCountType_bound(S, x, v, [S EXCEPT !.xd[x].min_exclusive = v],
                      "The min_exclusive value must be an integer.")
XdCountType_max_exclusive(S, x, v) ==
    XdCountType_bound(S, x, v, [S EXCEPT !.xd[x].max_exclusive = v],
                      "The max_exclusive value must be an integer.")
XdCountType_total_digits(S, x, v) ==
    XdCountType_bound(S, x, v, [S EXCEPT !.xd[x].total_digits = v],
                      "The total_digits value must be an integer.")

\* assignment  x.value = v  dispatched on the class of x
value_set(S, x, v) ==
    IF ClassOf(x) = "XdStringType" THEN XdStringType_value(S, x, v)
    ELSE XdCountType_value(S, x, v)

(***************************************************************************)
(* XdStringType facets (xdt.py): length, regex, enums, default.            *)
(***************************************************************************)
MsgExclusive == "The elements 'length', 'enums' and 'regex' are mutally exclusive."
ValidRegex == "[a-z]+"
BadRegex == "("
re_compiles(s) == s # BadRegex

XdStringType_length(S, x, v) ==
    IF ~S.xd[x].published
    THEN IF v = PyNone
         THEN Ok([S EXCEPT !.xd[x].length = v])
         ELSE IF S.xd[x].enums.n > 0 \/ S.xd[x].regex # PyNone
              THEN Raise(S, "ValueError", MsgExclusive)
              ELSE IF v.t = "int" /\ v.n >= 1
                   THEN Ok([S EXCEPT !.xd[x].length = v])
                   ELSE IF v.t = "tuple"
                        THEN IF v.s # "ints"
                             THEN Raise(S, "TypeError", "The tuple must contain two values of either type, None or integers.")
                             ELSE IF PairLo(v) > PairHi(v)
                                  THEN Raise(S, "ValueError", "Minimum length must be smaller or equal to maximum length.")
                                  ELSE Ok([S EXCEPT !.xd[x].length = v])
                        ELSE Raise(S, "TypeError", "The length value must be an integer (exact length) or a tuple (min/max lengths).")
    ELSE Raise(S, "PublicationError", MsgPublished)

XdStringType_regex_mut(S, x, v) ==
    IF ~S.xd[x].published
    THEN IF v = PyNone
         THEN Ok([S EXCEPT !.xd[x].regex = v])
         ELSE IF is_string(v)
              THEN IF re_compiles(v.s)
                   THEN Ok([S EXCEPT !.xd[x].regex = v])
                   ELSE Raise(S, "ValueError", "The value is not a valid regular expression.")
              ELSE Ok(S)
    ELSE Raise(S, "PublicationError", MsgPublished)

\* a value that is neither None nor a string falls through: nothing is
\* stored and nothing is raised
XdStringType_regex(S, x, v) ==
    IF ~S.xd[x].published
    THEN IF v = PyNone
         THEN Ok([S EXCEPT !.xd[x].regex = v])
         ELSE IF is_string(v)
              THEN IF S.xd[x].enums.n > 0 \/ S.xd[x].length # PyNone
                   THEN Raise(S, "ValueError", MsgExclusive)
                   ELSE IF re_compiles(v.s)
                        THEN Ok([S EXCEPT !.xd[x].regex = v])
                        ELSE Raise(S, "ValueError", "The value is not a valid regular expression.")
              ELSE Ok(S)
    ELSE Raise(S, "PublicationError", MsgPublished)

\* v == [] is stored before the exclusivity test
XdStringType_enums(S, x, v) ==
    IF ~S.xd[x].published
    THEN LET S1 == IF v.t = "list" /\ v.n = 0 THEN [S EXCEPT !.xd[x].enums = v] ELSE S
         IN  IF S1.xd[x].regex # PyNone \/ S1.xd[x].length # PyNone
             THEN Raise(S1, "ValueError", MsgExclusive)
             ELSE IF v.t = "list"
                  THEN IF v.n > 0 /\ v.s # "enums"
                       THEN Raise(S1, "TypeError", "The enumerations and definitions must be strings.")
                       ELSE Ok([S1 EXCEPT !.xd[x].enums = v])
                  ELSE Raise(S1, "TypeError", "The enumerations must be a list of tuples.")
    ELSE Raise(S, "PublicationError", MsgPublished)

\* the None branch assigns _length, not _default
XdStringType_default(S, x, v) ==
    IF ~S.xd[x].published
    THEN IF v = PyNone
         THEN Ok([S EXCEPT !.xd[x].length = v])
         ELSE IF is_string(v)
              THEN Ok([S EXCEPT !.xd[x].default = v])
              ELSE Raise(S, "TypeError", "The default value must be a string or None.")
    ELSE Raise(S, "PublicationError", MsgPublished)

(***************************************************************************)
(* validate() of the XdAnyType variants: "none" when it returns True,      *)
(* otherwise the exception it raises.                                      *)
(***************************************************************************)
XdAnyType_validate(S, x) ==
    IF ~is_url(S.xd[x].definition_url) THEN "ValidationError" ELSE "none"

XdStringType_validate(S, x) == XdAnyType_validate(S, x)

XdCountType_validate(S, x) ==
    IF XdAnyType_validate(S, x) # "none" THEN XdAnyType_validate(S, x)
    ELSE IF S.xd[x].units = None THEN "ValueError" ELSE "none"

\* The label is fixed by the constructor at two characters or more and has
\* no setter, so the label branch of every validate() is never taken.
validate(S, id) ==
    CASE ClassOf(id) = "XdStringType" -> XdStringType_validate(S, id)
      [] ClassOf(id) = "XdCountType" -> XdCountType_validate(S, id)
      [] ClassOf(id) = "XdAdapterType" -> "none"
      [] ClassOf(id) = "ClusterType" ->
            IF ~is_url(S.cl[id].definition_url) THEN "ValidationError"
            ELSE IF Len(S.cl[id].items) < 1 THEN "ValidationError" ELSE "none"
      [] ClassOf(id) = "PartyType" ->
            IF ~is_url(S.mt[id].definition_url) THEN "ValidationError" ELSE "none"
      [] OTHER -> "none"

ClusterType_validate(S, c) == validate(S, c)
XdAdapterType_validate(S, a) == validate(S, a)
MetaCommon_validate(S, m) == validate(S, m)

(***************************************************************************)
(* getModel(): here only whether the call returns ("none") or which        *)
(* exception stops it.                                                     *)
(***************************************************************************)
XdAnyType_getModel(S, x) ==
    IF ~S.xd[x].published THEN "PublicationError" ELSE XdAnyType_validate(S, x)

XdStringType_getModel(S, x) ==
    IF XdAnyType_validate(S, x) # "none" THEN XdAnyType_validate(S, x)
    ELSE XdAnyType_getModel(S, x)

XdCountType_getModel(S, x) ==
    IF XdCountType_validate(S, x) # "none" THEN XdCountType_validate(S, x)
    ELSE IF XdAnyType_getModel(S, x) # "none" THEN XdAnyType_getModel(S, x)
    ELSE XdStringType_getModel(S, S.xd[x].units)

XdType_getModel(S, x) ==
    IF ClassOf(x) = "XdStringType" THEN XdStringType_getModel(S, x)
    ELSE XdCountType_getModel(S, x)

\* an adapter without a value has mcuid None, which 'ms-' + self.mcuid refuses
XdAdapterType_getModel(S, a) ==
    IF ~S.ad[a].published THEN "ValueError"
    ELSE IF S.ad[a].value = None THEN "TypeError"
    ELSE XdType_getModel(S, S.ad[a].value)

\* first exception of a sequence of outcomes
RECURSIVE FirstErr(_)
FirstErr(es) ==
    IF es = <<>> THEN "none"
    ELSE IF es[1] # "none" THEN es[1] ELSE FirstErr(Tail(es))

\* item.value.acuid in the element loop: a ClusterType has no value, an
\* empty adapter has value None
ItemRefErr(S, i) ==
    IF i \in ClIds THEN "AttributeError"
    ELSE IF S.ad[i].value = None THEN "AttributeError" ELSE "none"

ClusterType_getModel(S, c) ==
    IF ~S.cl[c].published THEN "ValueError"
    ELSE IF ClusterType_validate(S, c) # "none" THEN ClusterType_validate(S, c)
    ELSE LET its == S.cl[c].items
             refs == [k \in 1..Len(its) |-> ItemRefErr(S, its[k])]
         IN  IF FirstErr(refs) # "none" THEN FirstErr(refs)
             ELSE FirstErr([k \in 1..Len(its) |-> XdAdapterType_getModel(S, its[k])])

(***************************************************************************)
(* XdBooleanType and XdLinkType setters (xdt.py).                          *)
(***************************************************************************)
InList(v, l) == v.t = "str" /\ \E k \in 1..Len(l) : l[k] = v.s

XdBooleanType_true_value_unguarded(S, x, v) ==
    IF S.xd[x].published
    THEN IF v = PyNone
         THEN Ok([S EXCEPT !.xd[x].true_value = PyNone])
         ELSE IF InList(v, S.xd[x].options.trues)
         THEN Ok([S EXCEPT !.xd[x].true_value = v])
         ELSE Raise(S, "ValueError",
                    "the true_value value must be in the options['trues'] list and the false_value must be None.")
    ELSE Raise(S, "PublicationError", MsgNotPublished)

XdBooleanType_true_value(S, x, v) ==
    IF S.xd[x].published
    THEN IF v = PyNone
         THEN Ok([S EXCEPT !.xd[x].true_value = PyNone])
         ELSE IF InList(v, S.xd[x].options.trues) /\ S.xd[x].false_value = PyNone
         THEN Ok([S EXCEPT !.xd[x].true_value = v])
         ELSE Raise(S, "ValueError",
                    "the true_value value must be in the options['trues'] list and the false_value must be None.")
    ELSE Raise(S, "PublicationError", MsgNotPublished)

XdBooleanType_false_value(S, x, v) ==
    IF S.xd[x].published
    THEN IF v = PyNone
         THEN Ok([S EXCEPT !.xd[x].false_value = PyNone])
         ELSE IF InList(v, S.xd[x].options.falses) /\ S.xd[x].true_value = PyNone
         THEN Ok([S EXCEPT !.xd[x].false_value = v])
         ELSE Raise(S, "ValueError",
                    "the false_value value must be in the options['falses'] list and the true_value must be None.")
    ELSE Raise(S, "PublicationError", MsgNotPublished)

XdLinkType_fixed(S, x, v) ==
    IF ~S.xd[x].published
    THEN IF v.t = "bool"
         THEN Ok([S EXCEPT !.xd[x].fixed = (v.n = 1)])
         ELSE Raise(S, "TypeError", "the fixed value must be a boolean.")
    ELSE Raise(S, "PublicationError", MsgPublished)

XdLinkType_link(S, x, v) ==
    IF is_string(v)
    THEN IF S.xd[x].published # S.xd[x].fixed
         THEN Ok([S EXCEPT !.xd[x].link = v.s])
         ELSE Raise(S, "ValueError", "Cannot add the link.")
    ELSE Raise(S, "TypeError", "the link value must be a string.")

XdLinkType_relation(S, x, v) ==
    IF ~S.xd[x].published
    THEN IF is_string(v)
         THEN Ok([S EXCEPT !.xd[x].relation = v])
         ELSE Raise(S, "TypeError", "the relation value must be a string.")
    ELSE Raise(S, "PublicationError", MsgPublished)

XdLinkType_relation_uri(S, x, v) ==
    IF ~S.xd[x].published
    THEN IF is_string(v) /\ is_url(v.s)
         THEN Ok([S EXCEPT !.xd[x].relation_uri = v])
         ELSE Raise(S, "TypeError", "the relation_uri value must be a URL.")
    ELSE Raise(S, "PublicationError", MsgPublished)

(***************************************************************************)
(* getModel() with its text.  The text is the sequence of the values the   *)
(* code concatenates into the returned string that come from the state;    *)
(* the literal XML around them is the same in every call.  An identifier   *)
(* that names the element of a component is an IdTok of kind "mcuid" or    *)
(* "acuid"; an identifier that only refers to another element is of kind   *)
(* "ref".                                                                  *)
(***************************************************************************)
Returns(S, o) == [S |-> S, err |-> "none", msg |-> "", out |-> o]
Raises(S, e, m) == [S |-> S, err |-> e, msg |-> m, out |-> <<>>]
WithOut(r, o) == [S |-> r.S, err |-> r.err, msg |-> r.msg, out |-> o]

\* F applied to the value of v
Bind(v, F(_)) == CHOOSE q \in {F(t) : t \in {v}} : TRUE

\* run F on the state r leaves unless r raised
AndThen(r, F(_)) ==
    CHOOSE q \in {IF t.err # "none" THEN t ELSE F(t.S) : t \in {r}} : TRUE

IdTok(kind, id) == [t |-> kind, s |-> id, n |-> 0]

XdAnyType_getModel_out(S, x) ==
    IF ~S.xd[x].published
    THEN Raises(S, "PublicationError", "The model must first be published.")
    ELSE IF XdAnyType_validate(S, x) # "none"
    THEN Raises(S, XdAnyType_validate(S, x), "is not valid.")
    ELSE Returns(S, <<IdTok("mcuid", x), PyBool(S.xd[x].adapter), PyStr(S.xd[x].docs),
                      PyStr(S.xd[x].definition_url), PyInt(Len(S.xd[x].pred_obj_list))>>)

XdStringType_getModel_out(S, x) ==
    IF XdStringType_validate(S, x) # "none"
    THEN Raises(S, XdStringType_validate(S, x), "is not valid.")
    ELSE Bind(XdAnyType_getModel_out(S, x), LAMBDA sup :
            IF sup.err # "none" THEN sup
            ELSE Returns(S, sup.out \o <<S.xd[x].default, S.xd[x].length, S.xd[x].regex,
                                         S.xd[x].enums>>))

XdCountType_getModel_out(S, x) ==
    IF XdCountType_validate(S, x) # "none"
    THEN Raises(S, XdCountType_validate(S, x), "Missing XdStringType for units.")
    ELSE Bind(XdAnyType_getModel_out(S, x), LAMBDA sup :
            IF sup.err # "none" THEN sup
            ELSE Bind(XdStringType_getModel_out(S, S.xd[x].units), LAMBDA u :
                    IF u.err # "none" THEN u
                    ELSE Returns(S, sup.out
                                    \o <<S.xd[x].min_inclusive, S.xd[x].max_inclusive,
                                         S.xd[x].min_exclusive, S.xd[x].max_exclusive,
                                         S.xd[x].total_digits, IdTok("ref", S.xd[x].units)>>
                                    \o u.out)))

XdType_getModel_out(S, x) ==
    IF ClassOf(x) = "XdStringType" THEN XdStringType_getModel_out(S, x)
    ELSE XdCountType_getModel_out(S, x)

XdAdapterType_getModel_out(S, a) ==
    IF ~S.ad[a].published
    THEN Raises(S, "ValueError", "The model must first be published.")
    ELSE IF S.ad[a].value = None
    THEN Raises(S, "TypeError", "can only concatenate str (not NoneType) to str")
    ELSE Bind(XdType_getModel_out(S, S.ad[a].value), LAMBDA v :
            IF v.err # "none" THEN v
            ELSE Returns(S, <<IdTok(S.ad[a].mcuid[1], S.ad[a].mcuid[2]),
                              IdTok("ref", S.ad[a].value)>> \o v.out))

\* the second loop of ClusterType.getModel: item.getModel() for every item
RECURSIVE ItemsModel(_, _, _)
ItemsModel(S, its, acc) ==
    IF its = <<>> THEN Returns(S, acc)
    ELSE Bind(XdAdapterType_getModel_out(S, Head(its)), LAMBDA r :
            IF r.err # "none" THEN r ELSE ItemsModel(S, Tail(its), acc \o r.out))

ClusterType_getModel_out(S, c) ==
    IF ~S.cl[c].published
    THEN Raises(S, "ValueError", "The model must first be published.")
    ELSE IF ClusterType_validate(S, c) # "none"
    THEN Raises(S, ClusterType_validate(S, c), "failed validation")
    ELSE Bind(FirstErr([k \in 1..Len(S.cl[c].items) |-> ItemRefErr(S, S.cl[c].items[k])]),
              LAMBDA e :
            IF e # "none"
            THEN Raises(S, e, "object has no attribute")
            ELSE ItemsModel(S, S.cl[c].items,
                            <<IdTok("mcuid", c), PyStr(S.cl[c].definition_url),
                              PyInt(Len(S.cl[c].pred_obj_list))>>
                            \o [k \in 1..Len(S.cl[c].items) |->
                                    IdTok("ref", S.ad[S.cl[c].items[k]].value)]))

PyEmptyTuple == [t |-> "tuple", s |-> "", n |-> 0]

\* int(v), the interval type of the model's interval: a number is
\* truncated, a string of digits parsed, any other string refused with
\* ValueError and anything else with TypeError
IntOf(v) ==
    IF IsPyNum(v) \/ (v.t = "str" /\ v.s = "number")
    THEN [err |-> "none", v |-> PyInt(v.n)]
    ELSE [err |-> IF v.t = "str" THEN "ValueError" ELSE "TypeError", v |-> v]

\* lower and upper share this body; after v = int(v) the isinstance test
\* cannot fail
XdIntervalType_limit(S, x, f, v) ==
    IF ~S.xd[x].published
    THEN IF IntOf(v).err = "none"
         THEN Ok([S EXCEPT !.xd[x][f] = IntOf(v).v])
         ELSE Raise(S, IntOf(v).err, "int() refused the value")
    ELSE Raise(S, "PublicationError", MsgPublished)

XdIntervalType_lower(S, x, v) == XdIntervalType_limit(S, x, "lower", v)

XdIntervalType_upper(S, x, v) == XdIntervalType_limit(S, x, "upper", v)

XdIntervalType_interval_units(S, x, v) ==
    IF ~S.xd[x].published
    THEN IF v.t = "tuple"
         THEN Ok([S EXCEPT !.xd[x].interval_units = v])
         ELSE Raise(S, "ValueError", "the interval_units value must be a tuple.")
    ELSE Raise(S, "PublicationError", MsgPublished)

\* truth value of a tuple or None: None and () are false
Truthy(v) == v # PyNone /\ v.n > 0

XdIntervalType_getModel(S, x) ==
    Bind(XdAnyType_getModel_out(S, x), LAMBDA sup :
        IF sup.err # "none" THEN sup
        ELSE IF S.xd[x].interval_type \notin {"int", "Decimal", "float"}
        THEN Raises(S, "KeyError", S.xd[x].interval_type)
        ELSE IF Truthy(S.xd[x].interval_units)
        THEN Returns([S EXCEPT !.cuids = @ + 1, !.xd[x].units_id = Cuid(S.cuids + 1)],
                     sup.out \o <<PyStr(S.xd[x].interval_type), Cuid(S.cuids + 1),
                                  Cuid(S.cuids + 1), S.xd[x].interval_units>>)
        ELSE Returns([S EXCEPT !.xd[x].units_id = PyNone],
                     sup.out \o <<PyStr(S.xd[x].interval_type)>>))

(***************************************************************************)
(* getXMLInstance(example=True).  rnd holds what the random functions      *)
(* return during the call: choice(ACS), random_dtstr() for each of the     *)
(* four time stamps, get_latlon(), and n, which selects the result of      *)
(* randint and of choice on a list; within one call every component of a   *)
(* tree is handed the same rnd.                                            *)
(***************************************************************************)
MsgNoExample == "Cannot create an example unless the model is published."
MaxRand == 1000000000

\* choice(l) for a non-empty list l
Choice(l, n) == l[(n % Len(l)) + 1]

\* c * n for a one-character string c
PyRep(c, n) == [t |-> "str", s |-> c, n |-> n]

XdAnyType_getXMLInstance(S, x, rnd) ==
    IF ~S.xd[x].published
    THEN Raises(S, "PublicationError", "The model must first be published.")
    ELSE LET r1 == XdAnyType_act(S, x, PyStr(rnd.act))
             r2 == AndThen(r1, LAMBDA T : XdAnyType_vtb(T, x, PyStr(rnd.vtb)))
             r3 == AndThen(r2, LAMBDA T : XdAnyType_vte(T, x, PyStr(rnd.vte)))
             r4 == AndThen(r3, LAMBDA T : XdAnyType_tr(T, x, PyStr(rnd.tr)))
             r5 == AndThen(r4, LAMBDA T : XdAnyType_modified(T, x, PyStr(rnd.modified)))
             r6 == AndThen(r5, LAMBDA T : XdAnyType_latitude(T, x, PyNumStr(rnd.lat)))
             r7 == AndThen(r6, LAMBDA T : XdAnyType_longitude(T, x, PyNumStr(rnd.lon)))
         IN  Bind(r7, LAMBDA r :
                 IF r.err # "none" THEN WithOut(r, <<>>)
                 ELSE Returns(r.S, (IF r.S.xd[x].adapter THEN <<IdTok("acuid", x)>> ELSE <<>>)
                                   \o <<IdTok("mcuid", x), r.S.xd[x].act, r.S.xd[x].vtb,
                                        r.S.xd[x].vte, r.S.xd[x].tr, r.S.xd[x].modified,
                                        r.S.xd[x].latitude, r.S.xd[x].longitude>>))

\* the example value XdStringType.getXMLInstance assigns when value is None
XdStringType_example(o) ==
    IF o.enums.n > 0
    THEN IF o.default # PyNone THEN o.default ELSE PyStr("enumeration")
    ELSE IF o.length.t = "int" THEN PyRep("w", o.length.n)
    ELSE IF o.length.t = "tuple" THEN PyRep("d", PairLo(o.length))
    ELSE IF o.default # PyNone THEN o.default
    ELSE IF o.regex # PyNone THEN PyStr("matches the regex")
    ELSE PyStr("Generated Default String")

\* super().getXMLInstance(example) after the assignments r1, then the
\* values the subclass writes, Rest
XdAnyType_getXMLInstance_after(r1, x, rnd, Rest(_)) ==
    Bind(r1, LAMBDA r :
        IF r.err # "none" THEN WithOut(r, <<>>)
        ELSE Bind(XdAnyType_getXMLInstance(r.S, x, rnd), LAMBDA sup :
                IF sup.err # "none" THEN sup ELSE Rest(sup)))

XdStringType_getXMLInstance(S, x, rnd) ==
    XdAnyType_getXMLInstance_after(
        IF S.xd[x].value = PyNone
        THEN IF ~S.xd[x].published
             THEN Raise(S, "PublicationError", MsgNoExample)
             ELSE XdStringType_value(S, x, XdStringType_example(S.xd[x]))
        ELSE Ok(S),
        x, rnd,
        LAMBDA sup : Returns(sup.S, sup.out \o <<sup.S.xd[x].value>>))

\* the assignments XdCountType.getXMLInstance makes to self.units.value
XdCountType_example_units(S, x) ==
    IF S.xd[x].units = None
    THEN Raise(S, "AttributeError", "'NoneType' object has no attribute 'value'")
    ELSE Bind(S.xd[x].units, LAMBDA u :
            IF S.xd[u].value # PyNone THEN Ok(S)
            ELSE IF S.xd[u].default # PyNone THEN XdStringType_value(S, u, S.xd[u].default)
            ELSE IF S.xd[u].enums.n > 0
            THEN XdStringType_value(S, u, PyTuple2("enumeration"))
            ELSE XdStringType_value(S, u, PyStr("Example Units")))

\* the bounds XdCountType.getXMLInstance hands to randint
XdCountType_example_min(o) ==
    IF o.min_exclusive # PyNone THEN o.min_exclusive.n + 1
    ELSE IF o.min_inclusive # PyNone THEN o.min_inclusive.n ELSE 1

XdCountType_example_max(o) ==
    IF o.max_exclusive # PyNone THEN o.max_exclusive.n - 1
    ELSE IF o.max_inclusive # PyNone THEN o.max_inclusive.n ELSE MaxRand

\* between XdCountType and XdAnyType, XdOrderedType.getXMLInstance assigns
\* normal_status, which an unpublished component refuses
XdCountType_getXMLInstance(S, x, rnd) ==
    XdAnyType_getXMLInstance_after(
        IF IsPyInt(S.xd[x].value)
        THEN IF ~S.xd[x].published THEN Raise(S, "PublicationError", MsgNotPublished)
             ELSE Ok(S)
        ELSE IF ~S.xd[x].published THEN Raise(S, "PublicationError", MsgNoExample)
        ELSE IF XdCountType_example_min(S.xd[x]) > XdCountType_example_max(S.xd[x])
        THEN Raise(S, "ValueError", "empty range for randrange()")
        ELSE Bind(XdCountType_value(S, x, PyInt(IF rnd.n = 0
                                                THEN XdCountType_example_min(S.xd[x])
                                                ELSE XdCountType_example_max(S.xd[x]))),
                  LAMBDA r :
                IF r.err # "none" THEN r
                ELSE IF S.xd[x].total_digits # PyNone
                        /\ StrLen(r.S.xd[x].value) > S.xd[x].total_digits.n
                THEN Raise(r.S, "TypeError", "'int' object is not subscriptable")
                ELSE XdCountType_example_units(r.S, x)),
        x, rnd,
        LAMBDA sup :
            IF S.xd[x].units = None
            THEN Raises(sup.S, "AttributeError", "'NoneType' object has no attribute 'label'")
            ELSE IF sup.S.xd[S.xd[x].units].value.t # "str"
            THEN Raises(sup.S, "TypeError", "can only concatenate str (not NoneType) to str")
            ELSE Returns(sup.S, sup.out \o <<sup.S.xd[x].value, sup.S.xd[S.xd[x].units].value>>))

XdBooleanType_getXMLInstance(S, x, rnd) ==
    XdAnyType_getXMLInstance_after(
        IF ~S.xd[x].published THEN Raise(S, "PublicationError", MsgNoExample)
        ELSE IF rnd.tf = "trues"
        THEN IF S.xd[x].options.trues = <<>>
             THEN Raise(S, "IndexError", "Cannot choose from an empty sequence")
             ELSE XdBooleanType_true_value(S, x, PyStr(Choice(S.xd[x].options.trues, rnd.n)))
        ELSE IF S.xd[x].options.falses = <<>>
             THEN Raise(S, "IndexError", "Cannot choose from an empty sequence")
             ELSE XdBooleanType_false_value(S, x, PyStr(Choice(S.xd[x].options.falses, rnd.n))),
        x, rnd,
        LAMBDA sup : Returns(sup.S, sup.out \o <<IF sup.S.xd[x].true_value # PyNone
                                                 THEN sup.S.xd[x].true_value
                                                 ELSE sup.S.xd[x].false_value>>))

XdLinkType_getXMLInstance(S, x, rnd) ==
    XdAnyType_getXMLInstance_after(
        IF ~S.xd[x].published THEN Raise(S, "PublicationError", MsgNoExample)
        ELSE AndThen(AndThen(XdLinkType_link(S, x,
                                PyStr("https://s3model.com/dmlib/dm-cjmuxu61q0000z98p91fewlhm")),
                             LAMBDA T : XdLinkType_relation(T, x, PyStr("Related Data Model"))),
                     LAMBDA T : XdLinkType_relation_uri(T, x,
                                    PyStr("https://s3model.com/examples/related"))),
        x, rnd,
        LAMBDA sup : Returns(sup.S, sup.out \o <<PyStr(sup.S.xd[x].link), sup.S.xd[x].relation,
                                                 sup.S.xd[x].relation_uri>>))

\* x.getXMLInstance(True) dispatched on the class of x
(***************************************************************************)
(* XdQuantifiedType (xdt.py): error and accuracy, inherited by             *)
(* XdCountType, XdQuantityType, XdFloatType and XdRatioType.               *)
(***************************************************************************)
XdQuantifiedType_error(S, x, v) ==
    IF S.xd[x].published
    THEN IF IsPyInt(v) /\ 0 <= v.n /\ v.n <= 100
         THEN Ok([S EXCEPT !.xd[x].error = v])
         ELSE Raise(S, "TypeError", "The error value must be an integer 0 - 100.")
    ELSE Raise(S, "PublicationError", MsgNotPublished)

\* the accepted value is stored in _error
XdQuantifiedType_accuracy(S, x, v) ==
    IF S.xd[x].published
    THEN IF IsPyInt(v) /\ 0 <= v.n /\ v.n <= 100
         THEN Ok([S EXCEPT !.xd[x].error = v])
         ELSE Raise(S, "TypeError", "The accuracy value must be an integer 0 - 100.")
    ELSE Raise(S, "PublicationError", MsgNotPublished)

(***************************************************************************)
(* XdRatioType (xdt.py): the bound facets of numerator and denominator.    *)
(***************************************************************************)
\* "if v is not None and isinstance(v, int): v = Decimal(v)"
DecimalOfInt(v) == IF IsPyInt(v) THEN PyDec(v.n) ELSE v

\* the four num_ setters share this body, field by field
XdRatioType_num_bound(S, x, f, v, msg) ==
    IF ~S.xd[x].published
    THEN IF DecimalOfInt(v).t \in {"Decimal", "NoneType"}
         THEN Ok([S EXCEPT !.xd[x][f] = DecimalOfInt(v)])
         ELSE Raise(S, "ValueError", msg)
    ELSE Raise(S, "PublicationError", MsgPublished)

\* the four den_ setters share this body: no test of published
XdRatioType_den_bound(S, x, f, v, msg) ==
    IF DecimalOfInt(v).t \in {"Decimal", "NoneType"}
    THEN Ok([S EXCEPT !.xd[x][f] = DecimalOfInt(v)])
    ELSE Raise(S, "ValueError", msg)

XdRatioType_num_min_inclusive(S, x, v) ==
    XdRatioType_num_bound(S, x, "num_min_inclusive", v, "The min_inclusive value must be a Decimal.")
XdRatioType_num_max_inclusive(S, x, v) ==
    XdRatioType_num_bound(S, x, "num_max_inclusive", v, "The max_inclusive value must be a Decimal.")
XdRatioType_num_min_exclusive(S, x, v) ==
    XdRatioType_num_bound(S, x, "num_min_exclusive", v, "The min_exclusive value must be a Decimal.")
XdRatioType_num_max_exclusive(S, x, v) ==
    XdRatioType_num_bound(S, x, "num_max_exclusive", v, "The max_exclusive value must be a Decimal.")
XdRatioType_den_min_inclusive(S, x, v) ==
    XdRatioType_den_bound(S, x, "den_min_inclusive", v, "The den_min_inclusive value must be a Decimal.")
XdRatioType_den_max_inclusive(S, x, v) ==
    XdRatioType_den_bound(S, x, "den_max_inclusive", v, "The den_max_inclusive value must be a Decimal.")
XdRatioType_den_min_exclusive(S, x, v) ==
    XdRatioType_den_bound(S, x, "den_min_exclusive", v, "The den_min_exclusive value must be a Decimal.")
XdRatioType_den_max_exclusive(S, x, v) ==
    XdRatioType_den_bound(S, x, "den_max_exclusive", v, "The den_max_exclusive value must be a Decimal.")

\* assignment  x.<f> = v  for a bound facet f of an XdRatioType
XdRatioType_bound_set(S, x, f, v) ==
    CASE f = "num_min_inclusive" -> XdRatioType_num_min_inclusive(S, x, v)
      [] f = "num_max_inclusive" -> XdRatioType_num_max_inclusive(S, x, v)
      [] f = "num_min_exclusive" -> XdRatioType_num_min_exclusive(S, x, v)
      [] f = "num_max_exclusive" -> XdRatioType_num_max_exclusive(S, x, v)
      [] f = "den_min_inclusive" -> XdRatioType_den_min_inclusive(S, x, v)
      [] f = "den_max_inclusive" -> XdRatioType_den_max_inclusive(S, x, v)
      [] f = "den_min_exclusive" -> XdRatioType_den_min_exclusive(S, x, v)
      [] f = "den_max_exclusive" -> XdRatioType_den_max_exclusive(S, x, v)

(***************************************************************************)
(* XdOrderedType and XdOrdinalType (xdt.py).                               *)
(***************************************************************************)
XdOrderedType_normal_status(S, x, v) ==
    IF S.xd[x].published
    THEN IF is_string(v)
         THEN Ok([S EXCEPT !.xd[x].normal_status = v])
         ELSE Raise(S, "TypeError", "the normal_status value must be a string.")
    ELSE Raise(S, "PublicationError", MsgNotPublished)

\* is_decimal(v) is called without a minimum or a maximum
XdOrdinalType_ordinal(S, x, v) ==
    IF S.xd[x].published
    THEN IF is_decimal(v, v.n, v.n)
         THEN Ok([S EXCEPT !.xd[x].ordinal = v])
         ELSE Raise(S, "TypeError", "the ordinal value must be a decimal.")
    ELSE Raise(S, "PublicationError", MsgNotPublished)

XdOrdinalType_symbol(S, x, v) ==
    IF S.xd[x].published
    THEN IF is_string(v)
         THEN Ok([S EXCEPT !.xd[x].symbol = v])
         ELSE Raise(S, "TypeError", "the symbol value must be a string.")
    ELSE Raise(S, "PublicationError", MsgNotPublished)

\* v in list(choices.keys()): a number equals a key of the same value, a
\* string equals none
InKeys(v, choices) ==
    IsPyNum(v) /\ \E k \in 1..Len(choices) : choices[k][1] = v.n

\* choices[c][0] for a key c
SymbolOf(choices, c) ==
    (CHOOSE e \in {choices[k] : k \in 1..Len(choices)} : e[1] = c)[2]

\* getXMLInstance(example=True): the ordinal is assigned as str(c), then
\* XdOrderedType assigns normal_status and XdAnyType the common fields
XdOrdinalType_getXMLInstance(S, x, rnd) ==
    XdAnyType_getXMLInstance_after(
        IF ~S.xd[x].published THEN Raise(S, "PublicationError", MsgNoExample)
        ELSE IF S.xd[x].choices = <<>>
        THEN Raise(S, "IndexError", "Cannot choose from an empty sequence")
        ELSE AndThen(AndThen(
                 XdOrdinalType_ordinal(S, x, PyNumStr(Choice(S.xd[x].choices, rnd.n)[1])),
                 LAMBDA T : XdOrdinalType_symbol(T, x, PyStr(Choice(S.xd[x].choices, rnd.n)[2]))),
                 LAMBDA T : XdOrderedType_normal_status(T, x, PyStr("normal"))),
        x, rnd,
        LAMBDA sup : Returns(sup.S, sup.out \o <<sup.S.xd[x].normal_status,
                                                 sup.S.xd[x].ordinal, sup.S.xd[x].symbol>>))

XdType_getXMLInstance(S, x, rnd) ==
    CASE ClassOf(x) = "XdStringType" -> XdStringType_getXMLInstance(S, x, rnd)
      [] ClassOf(x) = "XdCountType" -> XdCountType_getXMLInstance(S, x, rnd)
      [] ClassOf(x) = "XdBooleanType" -> XdBooleanType_getXMLInstance(S, x, rnd)
      [] ClassOf(x) = "XdLinkType" -> XdLinkType_getXMLInstance(S, x, rnd)
      [] ClassOf(x) = "XdOrdinalType" -> XdOrdinalType_getXMLInstance(S, x, rnd)

\* the loop of ClusterType.getXMLInstance: adapter.value.getXMLInstance(example)
RECURSIVE ItemsXML(_, _, _, _)
ItemsXML(S, its, rnd, acc) ==
    IF its = <<>> THEN Returns(S, acc)
    ELSE IF Head(its) \in ClIds
    THEN Raises(S, "AttributeError", "'ClusterType' object has no attribute 'value'")
    ELSE IF S.ad[Head(its)].value = None
    THEN Raises(S, "AttributeError", "'NoneType' object has no attribute 'getXMLInstance'")
    ELSE Bind(XdType_getXMLInstance(S, S.ad[Head(its)].value, rnd), LAMBDA r :
            IF r.err # "none" THEN r ELSE ItemsXML(r.S, Tail(its), rnd, acc \o r.out))

ClusterType_getXMLInstance(S, c, rnd) ==
    ItemsXML(S, S.cl[c].items, rnd, <<IdTok("mcuid", c)>>)

\* the identifiers of the components a text was written for, in the order
\* they were written
Visits(o) == SelectSeq(o, LAMBDA tok : tok.t \in {"mcuid", "acuid"})

(***************************************************************************)
(* __str__ of a value: the exception it raises, "none" when it returns.    *)
(***************************************************************************)
str_err(S, v) ==
    IF ~IsRef(v) THEN "none"
    ELSE CASE v.s \in XdIds \cup ClIds \cup MetaIds -> validate(S, v.s)
           [] v.s \in AdIds -> IF S.ad[v.s].mcuid = NoId THEN "TypeError" ELSE "none"
           [] OTHER -> "none"

\* classes whose instances have a published property
HasPublished(v) == IsRef(v) /\ v.s \in CompIds

(***************************************************************************)
(* XdAdapterType (struct.py).                                              *)
(***************************************************************************)
XdAdapterType_value_mut(S, a, v) ==
    IF ~S.ad[a].published
    THEN IF ~HasPublished(v)
         THEN Raise(S, "AttributeError", "object has no attribute 'published'")
         ELSE IF Published(S, v.s)
              THEN IF IsXdAnyType(v.s) /\ S.ad[a].value = None
                   THEN Ok([S EXCEPT !.ad[a].value = v.s,
                                     !.xd[v.s].adapter = TRUE,
                                     !.ad[a].mcuid = Mcuid(v.s),
                                     !.ad[a].label = <<"XdAdapter for", LabelOf(v.s)>>,
                                     !.ad[a].published = TRUE])
                   ELSE Raise(S, "ValueError", "the value must be a XdAnyType subtype. A XdAdapter can only contain one XdType.")
              ELSE Raise(S, "ValueError", MsgPublished)
    ELSE IF str_err(S, v) # "none"
         THEN Raise(S, str_err(S, v), "raised by __str__ of the value")
         ELSE Raise(S, "ValueError", MsgNotWrapped)

XdAdapterType_value(S, a, v) ==
    IF ~S.ad[a].published
    THEN IF ~HasPublished(v)
         THEN Raise(S, "AttributeError", "object has no attribute 'published'")
         ELSE IF Published(S, v.s)
              THEN IF IsXdAnyType(v.s) /\ S.ad[a].value = None
                   THEN Ok([S EXCEPT !.ad[a].value = v.s,
                                     !.xd[v.s].adapter = TRUE,
                                     !.ad[a].mcuid = Acuid(v.s),
                                     !.ad[a].label = <<"XdAdapter for", LabelOf(v.s)>>,
                                     !.ad[a].published = TRUE])
                   ELSE Raise(S, "ValueError", "the value must be a XdAnyType subtype. A XdAdapter can only contain one XdType.")
              ELSE Raise(S, "ValueError", MsgPublished)
    ELSE IF str_err(S, v) # "none"
         THEN Raise(S, str_err(S, v), "raised by __str__ of the value")
         ELSE Raise(S, "ValueError", MsgNotWrapped)

(***************************************************************************)
(* ClusterType (struct.py).                                                *)
(***************************************************************************)
ClusterType_docs(S, c, v) ==
    IF ~S.cl[c].published
    THEN IF is_string(v)
         THEN Ok([S EXCEPT !.cl[c].docs = <<v.s>>])
         ELSE Raise(S, "ValueError", "the Documentation value must be a string.")
    ELSE Raise(S, "ValueError", MsgPublished)

ClusterType_pred_obj_list(S, c, v) ==
    IF ~S.cl[c].published
    THEN LET r == pred_obj_list_body(S.cl[c].pred_obj_list, v)
         IN  [S |-> [S EXCEPT !.cl[c].pred_obj_list = r.pol], err |-> r.err,
              msg |-> IF r.err = "none" THEN "" ELSE "the Predicate Object List value must be a tuple of two strings or an empty list."]
    ELSE Raise(S, "ValueError", MsgPublished)

\* docs is a concatenation: the text and the 'Definition:' lines appended
ClusterType_definition_url(S, c, v) ==
    IF ~S.cl[c].published
    THEN IF is_string(v) /\ is_url(v.s)
         THEN Ok([S EXCEPT !.cl[c].definition_url = v.s,
                           !.cl[c].docs = Append(@, v.s)])
         ELSE Raise(S, "ValueError", "the Definition URL value must be a valid URL.")
    ELSE Raise(S, "ValueError", MsgPublished)

ClusterType_items_append_first(S, c, v) ==
    IF ~S.cl[c].published
    THEN IF IsRef(v) /\ IsItemType(v.s)
         THEN IF Published(S, v.s)
              THEN Ok([S EXCEPT !.cl[c].items = Append(@, v.s)])
              ELSE Raise([S EXCEPT !.cl[c].items = Append(@, v.s)],
                         "PublicationError", "The item must first be published.")
         ELSE IF IsRef(v) /\ (IsXdAnyType(v.s) \/ v.s \in ClIds)
              THEN Raise(S, "TypeError", "XdType items in a ClusterType must be wrapped in an XdAdapterType.")
              ELSE Raise(S, "TypeError", "items in a ClusterType must be of type ItemType.")
    ELSE Raise(S, "ValueError", MsgPublished)

ClusterType_items_mut(S, c, v) ==
    IF ~S.cl[c].published
    THEN IF IsRef(v) /\ IsItemType(v.s)
         THEN Ok([S EXCEPT !.cl[c].items = Append(@, v.s)])
         ELSE IF IsRef(v) /\ (IsXdAnyType(v.s) \/ v.s \in ClIds)
              THEN Raise(S, "TypeError", "XdType items in a ClusterType must be wrapped in an XdAdapterType.")
              ELSE Raise(S, "TypeError", "items in a ClusterType must be of type ItemType.")
    ELSE Raise(S, "ValueError", MsgPublished)

ClusterType_items(S, c, v) ==
    IF ~S.cl[c].published
    THEN IF IsRef(v) /\ IsItemType(v.s)
         THEN IF Published(S, v.s)
              THEN Ok([S EXCEPT !.cl[c].items = Append(@, v.s)])
              ELSE Raise(S, "PublicationError", "The item must first be published.")
         ELSE IF IsRef(v) /\ (IsXdAnyType(v.s) \/ v.s \in ClIds)
              THEN Raise(S, "TypeError", "XdType items in a ClusterType must be wrapped in an XdAdapterType.")
              ELSE Raise(S, "TypeError", "items in a ClusterType must be of type ItemType.")
    ELSE Raise(S, "ValueError", MsgPublished)

(***************************************************************************)
(* MetaCommon (meta.py).                                                   *)
(***************************************************************************)
MetaCommon_docs(S, m, v) ==
    IF ~S.mt[m].published
    THEN IF is_string(v)
         THEN Ok([S EXCEPT !.mt[m].docs = v.s])
         ELSE Raise(S, "ValueError", "the Documentation value must be a string.")
    ELSE Raise(S, "ValueError", MsgPublished)

MetaCommon_pred_obj_list(S, m, v) ==
    IF ~S.mt[m].published
    THEN LET r == pred_obj_list_body(S.mt[m].pred_obj_list, v)
         IN  [S |-> [S EXCEPT !.mt[m].pred_obj_list = r.pol], err |-> r.err,
              msg |-> IF r.err = "none" THEN "" ELSE "the Predicate Object List value must be a tuple of two strings or an empty list."]
    ELSE Raise(S, "ValueError", MsgPublished)

MetaCommon_definition_url(S, m, v) ==
    IF ~S.mt[m].published
    THEN IF is_string(v) /\ is_url(v.s)
         THEN Ok([S EXCEPT !.mt[m].definition_url = v.s])
         ELSE Raise(S, "ValueError", "the Definition URL value must be a valid URL.")
    ELSE Raise(S, "ValueError", MsgPublished)

(***************************************************************************)
(* DMType (dm.py).                                                         *)
(***************************************************************************)
DMType_data(S, v) ==
    IF S.dm.data = None /\ v.t = "ClusterType"
    THEN Ok([S EXCEPT !.dm.data = v.s])
    ELSE Raise(S, "TypeError", "the data attribute must be empty and the value passed must be a ClusterType.")

\* the metadata setters take any str, published or not
DMType_md_creator_regen(S, v) ==
    IF v.t = "str"
    THEN Ok([S EXCEPT !.dm.metadata = [DMType_genMD(S.dm.mcuid) EXCEPT !.creator = v.s]])
    ELSE Raise(S, "TypeError", "the value must be a string.")

DMType_md_creator(S, v) ==
    IF v.t = "str"
    THEN Ok([S EXCEPT !.dm.metadata.creator = v.s])
    ELSE Raise(S, "TypeError", "the value must be a string.")

DMType_md_subject(S, v) ==
    IF v.t = "str"
    THEN Ok([S EXCEPT !.dm.metadata.subject = v.s])
    ELSE Raise(S, "TypeError", "the value must be a string.")

DMType_md_rights(S, v) ==
    IF v.t = "str"
    THEN Ok([S EXCEPT !.dm.metadata.rights = v.s])
    ELSE Raise(S, "TypeError", "the value must be a string.")

DMType_md_description(S, v) ==
    IF v.t = "str"
    THEN Ok([S EXCEPT !.dm.metadata.description = v.s])
    ELSE Raise(S, "TypeError", "the value must be a string.")

DMType_exportDM_mut(S) ==
    IF S.dm.data = None
    THEN Raise(S, "ModelingError", "You must have a data cluster assigned.")
    ELSE IF ClusterType_getModel(S, S.dm.data) # "none"
         THEN Raise(S, ClusterType_getModel(S, S.dm.data), "raised by getModel of the data cluster")
         ELSE Ok([S EXCEPT !.dm.written = TRUE, !.dm.published = TRUE])

\* exportDM that marks the model published before it looks at the data
DMType_exportDM_publish_first(S) ==
    IF S.dm.published
    THEN Raise(S, "PublicationError", "This Data Model has already been published.")
    ELSE IF S.dm.data = None
         THEN Raise([S EXCEPT !.dm.published = TRUE], "ModelingError",
                    "You must have a data cluster assigned.")
         ELSE IF ClusterType_getModel(S, S.dm.data) # "none"
              THEN Raise(S, ClusterType_getModel(S, S.dm.data), "raised by getModel of the data cluster")
              ELSE Ok([S EXCEPT !.dm.written = TRUE, !.dm.published = TRUE])

DMType_exportDM(S) ==
    IF S.dm.published
    THEN Raise(S, "PublicationError", "This Data Model has already been published.")
    ELSE IF S.dm.data = None
         THEN Raise(S, "ModelingError", "You must have a data cluster assigned.")
         ELSE IF ClusterType_getModel(S, S.dm.data) # "none"
              THEN Raise(S, ClusterType_getModel(S, S.dm.data), "raised by getModel of the data cluster")
              ELSE Ok([S EXCEPT !.dm.written = TRUE, !.dm.published = TRUE])

(***************************************************************************)
(* The state machine.                                                      *)
(***************************************************************************)
CardOf(x) == IF ClassOf(x) = "XdStringType" THEN XdStringCard ELSE XdCountCard

Init ==
    /\ xd = [x \in XdIds \cup LeafIds |->
                IF x \in XdIds THEN XdAnyType_init(CardOf(x)) ELSE Leaf_init(x)]
    /\ ad = [a \in AdIds |-> XdAdapterType_init]
    /\ cl = [c \in ClIds |-> ClusterType_init]
    /\ mt = [m \in MetaIds |-> MetaCommon_init(PartyCard)]
    /\ dm = DMType_init
    /\ cuids = 0
    /\ out = <<>>
    /\ last = [op |-> "init", err |-> "none", msg |-> ""]

\* a call returns or raises; either way the state it leaves is the next
\* state, and last records the call and how it ended
Do(op, r) ==
    /\ xd' = r.S.xd
    /\ ad' = r.S.ad
    /\ cl' = r.S.cl
    /\ mt' = r.S.mt
    /\ dm' = r.S.dm
    /\ cuids' = r.S.cuids
    /\ out' = <<>>
    /\ last' = [op |-> op, err |-> r.err, msg |-> r.msg]

\* a call that returns text: out is the text
DoOut(op, r) ==
    /\ xd' = r.S.xd
    /\ ad' = r.S.ad
    /\ cl' = r.S.cl
    /\ mt' = r.S.mt
    /\ dm' = r.S.dm
    /\ cuids' = r.S.cuids
    /\ out' = r.out
    /\ last' = [op |-> op, err |-> r.err, msg |-> r.msg]

\* values offered to the setters
PublishedArgs == {PyBool(TRUE), PyBool(FALSE), PyInt(1)}
UrlArgs == {PyStr(ValidUrl), PyStr(BadUrl)}
DocsArgs == {PyStr("doc"), PyInt(7)}
PredObjArgs == {PyEmptyList, PyTuple2("rdf:resource"), PyStr("rdf:resource")}
UnitsArgs == {PyRef("x1"), PyNone}
RefArgs(ids) == {PyRef(id) : id \in ids \cup {DmId}} \cup {PyStr("s")}

SetPublished(id, v) == Do("published", published_set(State, id, v))

definition_url_set(S, id, v) ==
    CASE id \in XdIds \cup LeafIds -> XdAnyType_definition_url(S, id, v)
      [] id \in ClIds -> ClusterType_definition_url(S, id, v)
      [] id \in MetaIds -> MetaCommon_definition_url(S, id, v)

docs_set(S, id, v) ==
    CASE id \in XdIds \cup LeafIds -> XdAnyType_docs(S, id, v)
      [] id \in ClIds -> ClusterType_docs(S, id, v)
      [] id \in MetaIds -> MetaCommon_docs(S, id, v)

pred_obj_list_set(S, id, v) ==
    CASE id \in XdIds -> XdAnyType_pred_obj_list(S, id, v)
      [] id \in ClIds -> ClusterType_pred_obj_list(S, id, v)
      [] id \in MetaIds -> MetaCommon_pred_obj_list(S, id, v)

PredObjOf(S, id) ==
    CASE id \in XdIds -> S.xd[id].pred_obj_list
      [] id \in ClIds -> S.cl[id].pred_obj_list
      [] id \in MetaIds -> S.mt[id].pred_obj_list

\* the caps keep the lists that only grow within the bounds
SetDefinitionUrl(id, v) ==
    LET r == definition_url_set(State, id, v)
    IN  /\ id \in ClIds => Len(r.S.cl[id].docs) <= 1 + MaxDocs
        /\ Do("definition_url", r)

SetDocs(id, v) == Do("docs", docs_set(State, id, v))

SetPredObjList(id, v) ==
    LET r == pred_obj_list_set(State, id, v)
    IN  /\ Len(PredObjOf(r.S, id)) <= MaxPO
        /\ Do("pred_obj_list", r)

SetUnits(x, v) == Do("units", XdCountType_units(State, x, v))

SetAdapterValue(a, v) == Do("value", XdAdapterType_value(State, a, v))

SetItems(c, v) ==
    LET r == ClusterType_items(State, c, v)
    IN  /\ Len(r.S.cl[c].items) <= MaxItems
        /\ Do("items", r)

SetData(v) == Do("data", DMType_data(State, v))

ExportDM == Do("exportDM", DMType_exportDM(State))

(***************************************************************************)
(* Spec: composition.  A leaf type is published and wrapped in an adapter, *)
(* adapters are put into the inner cluster c2, adapters and clusters into  *)
(* the outer cluster c1.                                                   *)
(***************************************************************************)
LXd == {"x1"}
LAd == {"a1", "a2"}
LCl == {"c1", "c2"}
LArgs == RefArgs(LXd \cup LAd \cup LCl)

Next ==
    \/ \E id \in LXd \cup LAd \cup LCl, v \in PublishedArgs : SetPublished(id, v)
    \/ \E a \in LAd, v \in LArgs : SetAdapterValue(a, v)
    \/ \E v \in LArgs : SetItems("c1", v)
    \/ \E v \in RefArgs(LAd) : SetItems("c2", v)

Spec == Init /\ [][Next]_vars

(***************************************************************************)
(* SpecDef: the definition phase.  Definitional setters and the published  *)
(* flag on one object of every class.                                      *)
(***************************************************************************)
DArgs == RefArgs({"x1", "a1", "c1"})

NextDef ==
    \/ \E id \in {"x1", "a1", "c1", "m1"}, v \in PublishedArgs : SetPublished(id, v)
    \/ \E id \in {"x1", "c1"}, v \in UrlArgs : SetDefinitionUrl(id, v)
    \/ \E id \in {"x1"}, v \in DocsArgs : SetDocs(id, v)
    \/ \E id \in {"m1"}, v \in PredObjArgs : SetPredObjList(id, v)
    \/ \E v \in DArgs : SetAdapterValue("a1", v)
    \/ \E v \in DArgs : SetItems("c1", v)

SpecDef == Init /\ [][NextDef]_vars

(***************************************************************************)
(* SpecExport: one leaf, one adapter, one cluster and the data model, from *)
(* construction to exportDM.                                               *)
(***************************************************************************)
EArgs == RefArgs({"x1", "a1", "c1"})

NextExport ==
    \/ \E id \in {"x1", "a1", "c1"}, v \in PublishedArgs : SetPublished(id, v)
    \/ \E id \in {"x1", "c1"}, v \in UrlArgs : SetDefinitionUrl(id, v)
    \/ \E v \in EArgs : SetAdapterValue("a1", v)
    \/ \E v \in EArgs : SetItems("c1", v)
    \/ \E v \in EArgs : SetData(v)
    \/ ExportDM

SpecExport == Init /\ [][NextExport]_vars

(***************************************************************************)
(* SpecInst: the instance phase of an XdStringType and an XdCountType.     *)
(* The common instance setters are spread over the two objects.            *)
(***************************************************************************)
ActArgs == {PyStr("Public"), PyStr("Nobody"), PyInt(0)}
EvArgs == {[t |-> "ExceptionalValue", s |-> "NIType", n |-> 0], PyStr("NI")}
DateTimeArgs == {PyDateTime("2020-01-01T00:00:00"), PyInt(2020)}
LatitudeArgs == {PyDec(45), PyDec(91)}
LongitudeArgs == {PyDec(120), PyDec(181)}
ValueArgs == {PyStr("text"), PyInt(5), PyInt(11), PyNone, PyDec(5)}

SetAct(x, v) == Do("act", XdAnyType_act(State, x, v))

SetEv(x, v) ==
    LET r == XdAnyType_ev(State, x, v)
    IN  /\ Len(r.S.xd[x].ev) <= MaxEv
        /\ Do("ev", r)

SetVtb(x, v) == Do("vtb", XdAnyType_vtb(State, x, v))
SetVte(x, v) == Do("vte", XdAnyType_vte(State, x, v))
SetTr(x, v) == Do("tr", XdAnyType_tr(State, x, v))
SetModified(x, v) == Do("modified", XdAnyType_modified(State, x, v))
SetLatitude(x, v) == Do("latitude", XdAnyType_latitude(State, x, v))
SetLongitude(x, v) == Do("longitude", XdAnyType_longitude(State, x, v))
SetValue(x, v) == Do("value", value_set(State, x, v))

NextInst ==
    \/ \E x \in XdIds, v \in PublishedArgs : SetPublished(x, v)
    \/ \E v \in ActArgs : SetAct("x1", v)
    \/ \E v \in EvArgs : SetEv("x1", v)
    \/ \E v \in DateTimeArgs : SetVtb("x1", v)
    \/ \E v \in DateTimeArgs : SetVte("x2", v)
    \/ \E v \in DateTimeArgs : SetTr("x2", v)
    \/ \E v \in DateTimeArgs : SetModified("x2", v)
    \/ \E v \in LatitudeArgs : SetLatitude("x1", v)
    \/ \E v \in LongitudeArgs : SetLongitude("x2", v)
    \/ \E x \in XdIds, v \in ValueArgs : SetValue(x, v)

SpecInst == Init /\ [][NextInst]_vars

(***************************************************************************)
(* SpecCard: the cardinality setters of an XdStringType and a PartyType.   *)
(***************************************************************************)
CardKeyArgs == {PyStr("vtb"), PyStr("referencerange"), PyStr("bogus"), PyInt(0)}
CardNumArgs == {PyInt(0 - 1), PyInt(0), PyInt(1), PyInt(2), PyDec(0), PyDec(1), PyNone, PyStr("1")}

SetCardinality(id, k, lo, hi) ==
    IF id \in XdIds
    THEN Do("cardinality", XdAnyType_cardinality(State, id, k, lo, hi))
    ELSE Do("cardinality", MetaCommon_cardinality(State, id, k, lo, hi))

NextCard ==
    \/ \E id \in {"x1", "m1"}, v \in PublishedArgs : SetPublished(id, v)
    \/ \E k \in CardKeyArgs \ {PyStr("referencerange")}, lo \in CardNumArgs, hi \in CardNumArgs :
            SetCardinality("x1", k, lo, hi)
    \/ \E k \in CardKeyArgs \ {PyStr("vtb")}, lo \in CardNumArgs, hi \in CardNumArgs :
            SetCardinality("m1", k, lo, hi)

SpecCard == Init /\ [][NextCard]_vars

(***************************************************************************)
(* SpecStr: the constraint facets of an XdStringType.                      *)
(***************************************************************************)
LengthArgs == {PyNone, PyInt(3), PyInt(0), PyIntPair(1, 5), PyIntPair(5, 1), PyTuple2("a")}
RegexArgs == {PyNone, PyStr(ValidRegex), PyStr(BadRegex), PyInt(5)}
EnumsArgs == {PyEmptyList, PyEnumList(2), PyBadList, PyStr("red")}
DefaultArgs == {PyNone, PyStr("dflt"), PyInt(1)}

SetLength(x, v) == Do("length", XdStringType_length(State, x, v))
SetRegex(x, v) == Do("regex", XdStringType_regex(State, x, v))
SetEnums(x, v) == Do("enums", XdStringType_enums(State, x, v))
SetDefault(x, v) == Do("default", XdStringType_default(State, x, v))

NextStr ==
    \/ \E v \in PublishedArgs : SetPublished("x1", v)
    \/ \E v \in LengthArgs : SetLength("x1", v)
    \/ \E v \in RegexArgs : SetRegex("x1", v)
    \/ \E v \in EnumsArgs : SetEnums("x1", v)
    \/ \E v \in DefaultArgs : SetDefault("x1", v)

SpecStr == Init /\ [][NextStr]_vars

(***************************************************************************)
(* SpecCount: the bounds and the value of an XdCountType.                  *)
(***************************************************************************)
BoundArgs == {PyNone, PyInt(2), PyInt(4), PyStr("2")}
DigitsArgs == {PyNone, PyInt(1)}
CountArgs == {PyInt(1), PyInt(2), PyInt(3), PyInt(4), PyInt(5), PyInt(10), PyNone, PyStr("3")}

SetMinInclusive(x, v) == Do("min_inclusive", XdCountType_min_inclusive(State, x, v))
SetMaxInclusive(x, v) == Do("max_inclusive", XdCountType_max_inclusive(State, x, v))
SetMinExclusive(x, v) == Do("min_exclusive", XdCountType_min_exclusive(State, x, v))
SetMaxExclusive(x, v) == Do("max_exclusive", XdCountType_max_exclusive(State, x, v))
SetTotalDigits(x, v) == Do("total_digits", XdCountType_total_digits(State, x, v))

NextCount ==
    \/ \E v \in PublishedArgs : SetPublished("x2", v)
    \/ \E v \in BoundArgs : SetMinInclusive("x2", v)
    \/ \E v \in BoundArgs : SetMaxInclusive("x2", v)
    \/ \E v \in BoundArgs : SetMinExclusive("x2", v)
    \/ \E v \in BoundArgs : SetMaxExclusive("x2", v)
    \/ \E v \in DigitsArgs : SetTotalDigits("x2", v)
    \/ \E v \in UnitsArgs : SetUnits("x2", v)
    \/ \E v \in CountArgs : SetValue("x2", v)

SpecCount == Init /\ [][NextCount]_vars

(***************************************************************************)
(* SpecIntv: an XdIntervalType is given its definition and its units, is   *)
(* published, and its schema is generated any number of times.             *)
(***************************************************************************)
IntervalUnitsArgs == {PyTuple2("kg"), PyTuple2("cm"), PyEmptyTuple, PyStr("kg")}

SetIntervalUnits(x, v) == Do("interval_units", XdIntervalType_interval_units(State, x, v))

LimitArgs == {PyInt(1), PyNumStr(7), PyStr("ab"), PyNone}

SetLower(x, v) == Do("lower", XdIntervalType_lower(State, x, v))

SetUpper(x, v) == Do("upper", XdIntervalType_upper(State, x, v))

GetModelInterval(x) ==
    \E r \in {XdIntervalType_getModel(State, x)} :
        /\ r.S.cuids <= MaxCuid
        /\ DoOut("getModel", r)

NextIntv ==
    \/ \E v \in PublishedArgs : SetPublished("x3", v)
    \/ \E v \in UrlArgs : SetDefinitionUrl("x3", v)
    \/ \E v \in DocsArgs : SetDocs("x3", v)
    \/ \E v \in IntervalUnitsArgs : SetIntervalUnits("x3", v)
    \/ \E v \in LimitArgs : SetLower("x3", v)
    \/ \E v \in LimitArgs : SetUpper("x3", v)
    \/ GetModelInterval("x3")

SpecIntv == Init /\ [][NextIntv]_vars

(***************************************************************************)
(* SpecVisit: leaf types are defined, published and wrapped, the adapters  *)
(* are put into the cluster c1, c1 is published, and the schema and the    *)
(* example instance of c1 are generated.                                   *)
(***************************************************************************)
\* what the random functions return during one call
TreeDraws ==
    [act : {"Public"}, vtb : {"1970-01-01T00:00:00"}, vte : {"2015-12-31T00:00:00"},
     tr : {"1970-01-01T00:00:00"}, modified : {"2015-12-31T00:00:00"},
     lat : {89}, lon : {-180}, n : {0, 1}, tf : {"trues"}]

GetModelCluster(c) ==
    \E r \in {ClusterType_getModel_out(State, c)} : DoOut("getModel", r)

GetXMLInstanceCluster(c, rnd) ==
    \E r \in {ClusterType_getXMLInstance(State, c, rnd)} : DoOut("getXMLInstance", r)

NextVisit ==
    \/ \E id \in XdIds \cup {"c1"} : SetPublished(id, PyBool(TRUE))
    \/ \E id \in XdIds \cup {"c1"} : SetDefinitionUrl(id, PyStr(ValidUrl))
    \/ \E v \in UnitsArgs : SetUnits("x2", v)
    \/ SetAdapterValue("a1", PyRef("x1"))
    \/ SetAdapterValue("a2", PyRef("x2"))
    \/ \E a \in AdIds : SetItems("c1", PyRef(a))
    \/ GetModelCluster("c1")
    \/ \E rnd \in TreeDraws : GetXMLInstanceCluster("c1", rnd)

SpecVisit == Init /\ [][NextVisit]_vars

(***************************************************************************)
(* SpecExample: an XdBooleanType and an XdLinkType are defined and         *)
(* published, and their example instances are generated any number of      *)
(* times.                                                                  *)
(***************************************************************************)
ExampleDraws ==
    [act : {"Public", "Secret"}, vtb : {"1970-01-01T00:00:00"}, vte : {"2015-12-31T00:00:00"},
     tr : {"1970-01-01T00:00:00"}, modified : {"2015-12-31T00:00:00"},
     lat : {-90}, lon : {179}, n : {0, 1}, tf : {"trues", "falses"}]

FixedArgs == {PyBool(TRUE), PyBool(FALSE), PyInt(1)}
RelationArgs == {PyStr("related to"), PyInt(1)}
LinkArgs == {PyStr("dm-1"), PyInt(1)}

SetFixed(x, v) == Do("fixed", XdLinkType_fixed(State, x, v))
SetLink(x, v) == Do("link", XdLinkType_link(State, x, v))
SetRelation(x, v) == Do("relation", XdLinkType_relation(State, x, v))
SetRelationUri(x, v) == Do("relation_uri", XdLinkType_relation_uri(State, x, v))

GetXMLInstance(x, rnd) ==
    \E r \in {XdType_getXMLInstance(State, x, rnd)} : DoOut("getXMLInstance", r)

NextExample ==
    \/ \E x \in {"x4", "x5"}, v \in PublishedArgs : SetPublished(x, v)
    \/ \E x \in {"x4", "x5"}, v \in UrlArgs : SetDefinitionUrl(x, v)
    \/ \E v \in FixedArgs : SetFixed("x5", v)
    \/ \E v \in LinkArgs : SetLink("x5", v)
    \/ \E v \in RelationArgs : SetRelation("x5", v)
    \/ \E v \in UrlArgs : SetRelationUri("x5", v)
    \/ \E x \in {"x4", "x5"}, rnd \in ExampleDraws : GetXMLInstance(x, rnd)

SpecExample == Init /\ [][NextExample]_vars

(***************************************************************************)
(* SpecMeta: the data model's metadata, set entry by entry, with the data  *)
(* cluster assigned and the model exported in between.                     *)
(***************************************************************************)
MdArgs == {PyStr("Me again"), PyStr(""), PyInt(1), PyNone}

SetMdCreator(v) == Do("md_creator", DMType_md_creator(State, v))

SetMdSubject(v) == Do("md_subject", DMType_md_subject(State, v))

SetMdRights(v) == Do("md_rights", DMType_md_rights(State, v))

SetMdDescription(v) == Do("md_description", DMType_md_description(State, v))

NextMeta ==
    \/ \E v \in MdArgs : SetMdCreator(v)
    \/ \E v \in MdArgs : SetMdSubject(v)
    \/ \E v \in MdArgs : SetMdRights(v)
    \/ \E v \in MdArgs : SetMdDescription(v)
    \/ \E v \in RefArgs({"x1", "c1"}) : SetData(v)
    \/ ExportDM

SpecMeta == Init /\ [][NextMeta]_vars

(***************************************************************************)
(* SpecBool: an XdBooleanType from construction through publication to its *)
(* instance values and examples.                                           *)
(***************************************************************************)
BoolArgs == {PyStr("yes"), PyStr("no"), PyStr("maybe"), PyInt(1), PyNone}

SetTrueValue(x, v) == Do("true_value", XdBooleanType_true_value(State, x, v))

SetFalseValue(x, v) == Do("false_value", XdBooleanType_false_value(State, x, v))

NextBool ==
    \/ \E v \in PublishedArgs : SetPublished("x4", v)
    \/ \E v \in UrlArgs : SetDefinitionUrl("x4", v)
    \/ \E v \in BoolArgs : SetTrueValue("x4", v)
    \/ \E v \in BoolArgs : SetFalseValue("x4", v)
    \/ \E rnd \in ExampleDraws : GetXMLInstance("x4", rnd)

SpecBool == Init /\ [][NextBool]_vars

(***************************************************************************)
(* SpecOrd: an XdOrdinalType with the choices 0 and 1, published and then  *)
(* given ordinals and symbols by hand and by example.                      *)
(***************************************************************************)
OrdinalArgs == {PyInt(0), PyInt(1), PyInt(5), PyStr("trace"), PyNone}
SymbolArgs == {PyStr("neg"), PyStr("trace"), PyStr("+++"), PyInt(1)}

SetOrdinal(x, v) == Do("ordinal", XdOrdinalType_ordinal(State, x, v))

SetSymbol(x, v) == Do("symbol", XdOrdinalType_symbol(State, x, v))

NextOrd ==
    \/ \E v \in PublishedArgs : SetPublished("x6", v)
    \/ \E v \in UrlArgs : SetDefinitionUrl("x6", v)
    \/ \E v \in OrdinalArgs : SetOrdinal("x6", v)
    \/ \E v \in SymbolArgs : SetSymbol("x6", v)
    \/ \E rnd \in ExampleDraws : GetXMLInstance("x6", rnd)

SpecOrd == Init /\ [][NextOrd]_vars

(***************************************************************************)
(* SpecRatio: the bound facets of an XdRatioType before and after          *)
(* publication.                                                            *)
(***************************************************************************)
RatioBounds ==
    {"num_min_inclusive", "num_max_inclusive", "num_min_exclusive", "num_max_exclusive",
     "den_min_inclusive", "den_max_inclusive", "den_min_exclusive", "den_max_exclusive"}
RatioBoundArgs == {PyInt(1), PyNone, PyStr("1")}

SetRatioBound(x, f, v) == Do(f, XdRatioType_bound_set(State, x, f, v))

NextRatio ==
    \/ \E v \in PublishedArgs : SetPublished("x7", v)
    \/ \E v \in UrlArgs : SetDefinitionUrl("x7", v)
    \/ \E f \in RatioBounds, v \in RatioBoundArgs : SetRatioBound("x7", f, v)

SpecRatio == Init /\ [][NextRatio]_vars

(***************************************************************************)
(* SpecQuant: error and accuracy of a count and of a ratio, before and     *)
(* after publication.                                                      *)
(***************************************************************************)
QuantIds == {"x2", "x7"}
PercentArgs == {PyInt(0), PyInt(50), PyInt(100), PyInt(101), PyStr("5"), PyNone}

SetError(x, v) == Do("error", XdQuantifiedType_error(State, x, v))

SetAccuracy(x, v) == Do("accuracy", XdQuantifiedType_accuracy(State, x, v))

NextQuant ==
    \/ \E x \in QuantIds, v \in PublishedArgs : SetPublished(x, v)
    \/ \E x \in QuantIds, v \in PercentArgs : SetError(x, v)
    \/ \E x \in QuantIds, v \in PercentArgs : SetAccuracy(x, v)

SpecQuant == Init /\ [][NextQuant]_vars

(***************************************************************************)
(* SpecNest: a cluster inside a cluster.  One leaf in one adapter, the     *)
(* inner cluster c2 and the outer cluster c1, defined, published, nested   *)
(* and exported.                                                           *)
(***************************************************************************)
NextNest ==
    \/ \E id \in {"x1", "c1", "c2"}, v \in {PyBool(TRUE), PyInt(1)} : SetPublished(id, v)
    \/ \E id \in {"x1", "c1", "c2"}, v \in UrlArgs : SetDefinitionUrl(id, v)
    \/ \E v \in RefArgs({"x1", "c2"}) : SetAdapterValue("a1", v)
    \/ \E v \in RefArgs({"x1", "a1", "c2"}) : SetItems("c1", v)
    \/ \E v \in RefArgs({"a1"}) : SetItems("c2", v)
    \/ \E c \in {"c1", "c2"} : GetModelCluster(c)
    \/ \E c \in {"c1", "c2"}, rnd \in TreeDraws : GetXMLInstanceCluster(c, rnd)

SpecNest == Init /\ [][NextNest]_vars

(***************************************************************************)
(* Properties.                                                             *)
(***************************************************************************)
PublishedNow(id) == Published(State, id)

\* C1: once a component's published flag is true it stays true in every
\* later state, whatever is called next.
C1_PublishedIsForever ==
    [][\A id \in CompIds : PublishedNow(id) => PublishedNow(id)']_vars

\* every class has a published object and the last assignment to a
\* published flag was refused
C1_Witness ==
    /\ \A id \in {"x1", "a1", "c1", "m1"} : PublishedNow(id)
    /\ last.op = "published"
    /\ last.err = "ValueError"

\* C2: every Published component passes its validate(): publish succeeds
\* only on a component that validates.
C2_PublishedImpliesValid ==
    \A id \in CompIds : PublishedNow(id) => validate(State, id) = "none"

\* C3: publishing a Published component again, and exportDM on an exported
\* model, raise and change nothing.
C3_RepublishRaises ==
    /\ \A id \in CompIds, v \in PublishedArgs :
          PublishedNow(id) =>
             /\ published_set(State, id, v).err # "none"
             /\ published_set(State, id, v).S = State
    /\ dm.published =>
          /\ DMType_exportDM(State).err # "none"
          /\ DMType_exportDM(State).S = State

\* the model was exported and a second exportDM was refused
C3_Witness ==
    /\ dm.published
    /\ dm.written
    /\ last.op = "exportDM"
    /\ last.err = "PublicationError"

\* well-formed values of the definitional setters
GoodDocs == {PyStr("doc")}
GoodUrls == {PyStr(ValidUrl)}
GoodPredObj == {PyEmptyList, PyTuple2("rdf:resource")}
GoodItems(S) == {PyRef(i) : i \in {j \in AdIds \cup ClIds : Published(S, j)}}

\* r is the outcome of a definitional setter called on id in state S
DefinitionalGate(S, id, r) ==
    /\ (r.err = "none") <=> ~Published(S, id)
    /\ Published(S, id) => r.S = S

\* C4: a definitional setter given a well-formed value succeeds exactly on
\* an Unpublished component; on a Published one it raises and changes nothing.
C4_DefinitionalSetters ==
    /\ \A id \in XdIds \cup ClIds \cup MetaIds :
          /\ \A v \in GoodDocs : DefinitionalGate(State, id, docs_set(State, id, v))
          /\ \A v \in GoodUrls : DefinitionalGate(State, id, definition_url_set(State, id, v))
          /\ \A v \in GoodPredObj : DefinitionalGate(State, id, pred_obj_list_set(State, id, v))
    /\ \A x \in XdIds :
          DefinitionalGate(State, x, XdAnyType_cardinality(State, x, PyStr("vtb"), PyInt(1), PyInt(1)))
    /\ \A m \in MetaIds :
          DefinitionalGate(State, m, MetaCommon_cardinality(State, m, PyStr("party_name"), PyInt(1), PyInt(1)))
    /\ \A c \in ClIds, v \in GoodItems(State) :
          DefinitionalGate(State, c, ClusterType_items(State, c, v))

\* a definition_url was stored before publication and a later definitional
\* assignment to a Published component was refused
C4_Witness ==
    /\ xd["x1"].published
    /\ xd["x1"].definition_url = ValidUrl
    /\ cl["c1"].published
    /\ Len(cl["c1"].items) > 0
    /\ last.err # "none"
    /\ last.msg = MsgPublished

\* well-formed values of the instance setters
GoodAct == {PyStr(a) : a \in ACS}
GoodEv == {[t |-> "ExceptionalValue", s |-> "NIType", n |-> 0]}
GoodDateTime == {PyDateTime("2020-01-01T00:00:00")}
GoodLatitude == {PyDec(45), PyDec(0 - 90)}
GoodLongitude == {PyDec(120), PyDec(180)}
GoodValue(x) == IF ClassOf(x) = "XdStringType" THEN {PyStr("text")} ELSE {PyInt(5), PyInt(11)}

\* r is the outcome of an instance setter called on x in state S
InstanceGate(S, x, r) ==
    /\ (r.err = "none") <=> Published(S, x)
    /\ ~Published(S, x) => r.S = S

\* C5: an instance setter given a well-formed value succeeds exactly on a
\* Published component; on an Unpublished one it raises and changes nothing.
C5_InstanceSetters ==
    \A x \in XdIds :
       /\ \A v \in GoodAct : InstanceGate(State, x, XdAnyType_act(State, x, v))
       /\ \A v \in GoodEv : InstanceGate(State, x, XdAnyType_ev(State, x, v))
       /\ \A v \in GoodDateTime :
             /\ InstanceGate(State, x, XdAnyType_vtb(State, x, v))
             /\ InstanceGate(State, x, XdAnyType_vte(State, x, v))
             /\ InstanceGate(State, x, XdAnyType_tr(State, x, v))
             /\ InstanceGate(State, x, XdAnyType_modified(State, x, v))
       /\ \A v \in GoodLatitude : InstanceGate(State, x, XdAnyType_latitude(State, x, v))
       /\ \A v \in GoodLongitude : InstanceGate(State, x, XdAnyType_longitude(State, x, v))
       /\ \A v \in GoodValue(x) : InstanceGate(State, x, value_set(State, x, v))

\* one leaf holds instance values while an instance assignment to the other,
\* still Unpublished, leaf was refused
C5_Witness ==
    /\ xd["x1"].published
    /\ xd["x1"].value = PyStr("text")
    /\ xd["x1"].act = PyStr("Public")
    /\ ~xd["x2"].published
    /\ last.err = "PublicationError"
    /\ last.msg = MsgNotPublished

\* C6: adapter.value = v succeeds only for an Unpublished adapter and a
\* Published value; otherwise it raises, changes nothing, and the message
\* names the cause: a Published adapter, or an Unpublished value.
C6_AdapterValueErrors ==
    \A a \in AdIds, v \in RefArgs(CompIds) :
       LET r == XdAdapterType_value(State, a, v)
       IN  /\ r.err = "none" => ~ad[a].published /\ HasPublished(v) /\ Published(State, v.s)
           /\ r.err # "none" => r.S = State
           /\ ad[a].published => r.msg = MsgPublished
           /\ (~ad[a].published /\ HasPublished(v) /\ ~Published(State, v.s)) => r.msg = MsgNotWrapped

\* C7: after adapter.value = v succeeds the adapter's mcuid is v's acuid and
\* the adapter is Published, now and in every later state.
C7_AdapterIdentity ==
    /\ \A a \in AdIds :
          ad[a].value # None => ad[a].mcuid = Acuid(ad[a].value) /\ ad[a].published
    /\ \A a \in AdIds, v \in RefArgs(CompIds) :
          LET r == XdAdapterType_value(State, a, v)
          IN  r.err = "none" => r.S.ad[a].mcuid = Acuid(v.s) /\ r.S.ad[a].published

\* an adapter that holds a value sits in a cluster that was published later
C7_Witness ==
    \E c \in ClIds :
       /\ cl[c].published
       /\ \E k \in 1..Len(cl[c].items) :
             cl[c].items[k] \in AdIds /\ ad[cl[c].items[k]].value # None

\* C8: every item of every ClusterType is a Published XdAdapterType or a
\* Published ClusterType.
C8_ItemsArePublished ==
    \A c \in ClIds :
       \A k \in 1..Len(cl[c].items) :
          /\ cl[c].items[k] \in AdIds \cup ClIds
          /\ PublishedNow(cl[c].items[k])

\* a cluster holds an adapter and a nested cluster
C8_Witness ==
    \E c \in ClIds :
       /\ \E k \in 1..Len(cl[c].items) : cl[c].items[k] \in AdIds
       /\ \E k \in 1..Len(cl[c].items) : cl[c].items[k] \in ClIds

\* v is an insertion the items setter must refuse
ItemRefused(S, c, v) ==
    \/ S.cl[c].published
    \/ ~(IsRef(v) /\ IsItemType(v.s))
    \/ (IsRef(v) /\ IsItemType(v.s) /\ ~Published(S, v.s))

\* C9: a refused item insertion raises and leaves the item sequence of the
\* cluster as it was.
C9_RejectedInsertion ==
    \A c \in ClIds, v \in RefArgs(CompIds) :
       LET r == ClusterType_items(State, c, v)
       IN  /\ ItemRefused(State, c, v) => r.err # "none"
           /\ r.err # "none" => r.S.cl[c].items = cl[c].items

\* an insertion was refused by a cluster that holds two items
C9_Witness ==
    /\ last.op = "items"
    /\ last.err # "none"
    /\ \E c \in ClIds : Len(cl[c].items) = 2 /\ cl[c].items[1] # cl[c].items[2]

\* the number a cardinality bound stands for: None is unbounded
CardNum(v) == IF v.t = "NoneType" THEN INF ELSE v.n

\* [lo, hi] is a legal cardinality of field k according to the allow-table
CardAllowed(k, lo, hi) ==
    /\ k.t = "str" /\ k.s \in TableKeys
    /\ IsPyNum(lo) \/ lo.t = "NoneType"
    /\ IsPyNum(hi) \/ hi.t = "NoneType"
    /\ CardTable[k.s][1][1] <= CardNum(lo) /\ CardNum(lo) <= CardTable[k.s][1][2]
    /\ CardTable[k.s][2][1] <= CardNum(hi) /\ CardNum(hi) <= CardTable[k.s][2][2]
    /\ CardNum(lo) <= CardNum(hi)

\* C10: on an Unpublished component the cardinality setter succeeds exactly
\* when the field is in the allow-table, lo and hi are in the field's ranges
\* and lo <= hi; otherwise it raises and the cardinality map is unchanged.
C10_CardinalitySetter ==
    /\ \A x \in XdIds, k \in CardKeyArgs, lo \in CardNumArgs, hi \in CardNumArgs :
          LET r == XdAnyType_cardinality(State, x, k, lo, hi)
          IN  ~xd[x].published =>
                 /\ (r.err = "none") <=> CardAllowed(k, lo, hi)
                 /\ r.err # "none" => r.S = State
    /\ \A m \in MetaIds, k \in CardKeyArgs, lo \in CardNumArgs, hi \in CardNumArgs :
          LET r == MetaCommon_cardinality(State, m, k, lo, hi)
          IN  ~mt[m].published =>
                 /\ (r.err = "none") <=> CardAllowed(k, lo, hi)
                 /\ r.err # "none" => r.S = State

\* C11: in every reachable state, the state right after construction
\* included, every entry [min, max] of every cardinality map has min <= max
\* and lies in the allow-table ranges of its field; max is unbounded only
\* where the table permits it.
C11_CardinalityMapInvariant ==
    /\ \A x \in XdIds : \A k \in DOMAIN xd[x].cardinality :
          CardAllowed(PyStr(k), xd[x].cardinality[k][1], xd[x].cardinality[k][2])
    /\ \A m \in MetaIds : \A k \in DOMAIN mt[m].cardinality :
          CardAllowed(PyStr(k), mt[m].cardinality[k][1], mt[m].cardinality[k][2])

\* the facets of an XdStringType that are set
LengthSet(S, x) == S.xd[x].length # PyNone
RegexSet(S, x) == S.xd[x].regex # PyNone
EnumsSet(S, x) == S.xd[x].enums.n > 0
Facets(S, x) == <<S.xd[x].length, S.xd[x].regex, S.xd[x].enums>>

\* C12: at most one of length, regex, enums is set on an XdStringType, and
\* assigning a non-null length, a regex or a non-empty enums list while one
\* of the other two is set raises and changes none of the three.
C12_FacetsExclusive ==
    LET x == "x1"
    IN  /\ ~(LengthSet(State, x) /\ RegexSet(State, x))
        /\ ~(LengthSet(State, x) /\ EnumsSet(State, x))
        /\ ~(RegexSet(State, x) /\ EnumsSet(State, x))
        /\ \A v \in {PyInt(3), PyIntPair(1, 5)} :
              (RegexSet(State, x) \/ EnumsSet(State, x)) =>
                 /\ XdStringType_length(State, x, v).err # "none"
                 /\ Facets(XdStringType_length(State, x, v).S, x) = Facets(State, x)
        /\ \A v \in {PyStr(ValidRegex), PyStr(BadRegex)} :
              (LengthSet(State, x) \/ EnumsSet(State, x)) =>
                 /\ XdStringType_regex(State, x, v).err # "none"
                 /\ Facets(XdStringType_regex(State, x, v).S, x) = Facets(State, x)
        /\ \A v \in {PyEnumList(1), PyEnumList(2)} :
              (LengthSet(State, x) \/ RegexSet(State, x)) =>
                 /\ XdStringType_enums(State, x, v).err # "none"
                 /\ Facets(XdStringType_enums(State, x, v).S, x) = Facets(State, x)

\* a regex was refused because a length range is set
C12_Witness ==
    /\ xd["x1"].length = PyIntPair(1, 5)
    /\ last.op = "regex"
    /\ last.err = "ValueError"
    /\ last.msg = MsgExclusive

\* the integer n satisfies every configured bound of the count o
InBounds(o, n) ==
    /\ o.min_inclusive # PyNone => n >= o.min_inclusive.n
    /\ o.max_inclusive # PyNone => n <= o.max_inclusive.n
    /\ o.min_exclusive # PyNone => n > o.min_exclusive.n
    /\ o.max_exclusive # PyNone => n < o.max_exclusive.n

\* C13: the value of a Published XdCountType is unset or an integer within
\* every configured bound; an out-of-range integer is refused and leaves the
\* value as it was, an in-range integer is stored as given.
C13_CountWithinBounds ==
    LET x == "x2"
        o == xd[x]
    IN  /\ o.value # PyNone => o.published /\ o.value.t = "int" /\ InBounds(o, o.value.n)
        /\ \A v \in {PyInt(n) : n \in 0..11} :
              LET r == XdCountType_value(State, x, v)
              IN  o.published =>
                     /\ ~InBounds(o, v.n) => r.err # "none" /\ r.S = State
                     /\ (InBounds(o, v.n) /\ o.total_digits = PyNone) =>
                            r.err = "none" /\ r.S.xd[x].value = v

\* a count between min_inclusive 2 and max_inclusive 4 holds 3 after an
\* out-of-range value was refused
C13_Witness ==
    /\ xd["x2"].published
    /\ xd["x2"].min_inclusive = PyInt(2)
    /\ xd["x2"].max_inclusive = PyInt(4)
    /\ xd["x2"].value = PyInt(3)
    /\ last.op = "value"
    /\ last.err = "ValueError"

\* the number of places where the item i occurs in the clusters' item lists
Occurrences(i) ==
    Cardinality({<<c, k>> \in ClIds \X (1..(MaxItems + 1)) :
                    k <= Len(cl[c].items) /\ cl[c].items[k] = i})

\* C14: no component has two parents: a value is wrapped by at most one
\* adapter, and an adapter or cluster occurs at most once in all the item
\* lists.
C14_SingleOwner ==
    /\ \A a, b \in AdIds :
          (a # b /\ ad[a].value # None) => ad[a].value # ad[b].value
    /\ \A i \in AdIds \cup ClIds : Occurrences(i) <= 1

\* outcomes of the setter calls that can be made in the current state
SetterOutcomes ==
    {XdCountType_units(State, "x2", v) : v \in UnitsArgs}
    \cup {XdCountType_min_inclusive(State, "x2", v) : v \in BoundArgs}
    \cup {XdCountType_max_inclusive(State, "x2", v) : v \in BoundArgs}
    \cup {XdCountType_total_digits(State, "x2", v) : v \in DigitsArgs}
    \cup {XdCountType_value(State, "x2", v) : v \in CountArgs}
    \cup {XdStringType_enums(State, "x1", v) : v \in EnumsArgs}
    \cup {XdStringType_length(State, "x1", v) : v \in LengthArgs}
    \cup {XdStringType_regex(State, "x1", v) : v \in RegexArgs}
    \cup {published_set(State, id, v) : id \in CompIds, v \in PublishedArgs}

\* C15: every setter is atomic: a call that raises leaves every field of
\* every component, the field being set included, as it was.
C15_SetterAtomicity ==
    \A r \in SetterOutcomes : r.err # "none" => r.S = State

\* C16: calling getModel() twice in a row on a published component returns
\* the same text both times and leaves the state of the component as it
\* was, also for an XdIntervalType whose interval_units are set.
C16_GetModelIdempotent ==
    LET r1 == XdIntervalType_getModel(State, "x3")
        r2 == XdIntervalType_getModel(r1.S, "x3")
    IN  r1.err = "none" => /\ r1.S.xd = xd
                            /\ r2.err = "none"
                            /\ r2.out = r1.out

\* C17: for a published tree rooted at a ClusterType, getModel() and
\* getXMLInstance(example=True) write the components of the tree in the
\* same order: the identifiers of the components written are the same
\* sequence in both texts.
C17_SameVisitOrder ==
    \A rnd \in TreeDraws :
        LET m == ClusterType_getModel_out(State, "c1")
            i == ClusterType_getXMLInstance(State, "c1", rnd)
        IN  (m.err = "none" /\ i.err = "none") => Visits(m.out) = Visits(i.out)

\* C18: on a published leaf component whose instance fields are unset or
\* were set by an earlier example, getXMLInstance(example=True) returns
\* the instance text and raises nothing, for XdBooleanType and XdLinkType
\* alike.
C18_ExampleNeverRaises ==
    \A x \in {"x4", "x5"} : \A rnd \in ExampleDraws :
        xd[x].published => XdType_getXMLInstance(State, x, rnd).err = "none"

\* C19: exportDM on a model without a data cluster raises ModelingError,
\* writes no file and changes nothing, the model stays unpublished; the
\* data setter then still accepts a ClusterType, and exportDM after that
\* writes the file and publishes the model when the cluster's getModel()
\* returns.
C19_ExportWithoutData ==
    dm.data = None =>
        /\ ~dm.published
        /\ ~dm.written
        /\ DMType_exportDM(State).err = "ModelingError"
        /\ DMType_exportDM(State).S = State
        /\ \A c \in ClIds :
              LET r2 == DMType_data(DMType_exportDM(State).S, PyRef(c))
                  r3 == DMType_exportDM(r2.S)
              IN  /\ r2.err = "none"
                  /\ r2.S.dm.data = c
                  /\ ClusterType_getModel(r2.S, c) = "none" =>
                        r3.err = "none" /\ r3.S.dm.published /\ r3.S.dm.written

\* exportDM was refused for want of a data cluster and left the model as
\* it was
C19_Witness ==
    /\ last.op = "exportDM"
    /\ last.err = "ModelingError"
    /\ dm.data = None
    /\ ~dm.published
    /\ ~dm.written

\* C20: md_creator given a string stores exactly that string and changes
\* nothing else: the model id, the identifier ('dm-' + the model id) and
\* every other metadata entry keep their values, in every state of the
\* model; a value that is not a string is refused and changes nothing; a
\* newly created model reads creator 'Unknown'.
C20_CreatorSetter ==
    /\ dm.mcuid = Mcuid(DmId)
    /\ dm.metadata.identifier = <<"dm-", dm.mcuid>>
    /\ last.op = "init" => dm.metadata.creator = "Unknown"
    /\ \A v \in MdArgs :
          LET r == DMType_md_creator(State, v)
          IN  IF v.t = "str"
              THEN /\ r.err = "none"
                   /\ r.S.dm.metadata.creator = v.s
                   /\ r.S = [State EXCEPT !.dm.metadata.creator = v.s]
                   /\ r.S.dm.mcuid = dm.mcuid
                   /\ r.S.dm.metadata.identifier = dm.metadata.identifier
              ELSE r.err = "TypeError" /\ r.S = State

\* the creator was just set to 'Me again' on a model whose subject had
\* been changed before, and the subject is still the changed one
C20_Witness ==
    /\ last.op = "md_creator"
    /\ last.err = "none"
    /\ dm.metadata.creator = "Me again"
    /\ dm.metadata.subject = "Me again"
    /\ dm.metadata.identifier = <<"dm-", Mcuid(DmId)>>

\* C21: in every reachable state an adapter is published exactly when it
\* holds a value; assigning the published flag of an adapter directly is
\* refused.
C21_AdapterPublishedIffValue ==
    \A a \in AdIds : ad[a].published <=> ad[a].value # None

\* C22: for a ClusterType whose validate() raises (no items, or no valid
\* definition_url), getModel() and getXMLInstance(example) both raise and
\* return no text.
C22_ValidateBeforeEmit ==
    \A rnd \in TreeDraws :
        LET m == ClusterType_getModel_out(State, "c1")
            i == ClusterType_getXMLInstance(State, "c1", rnd)
        IN  ClusterType_validate(State, "c1") # "none" =>
                /\ m.err # "none"
                /\ m.out = <<>>
                /\ i.err # "none"
                /\ i.out = <<>>

\* C23: a published, valid cluster c1 whose items include the published
\* cluster c2 (itself exportable, as are c1's adapters) exports: getModel()
\* and getXMLInstance() return, the text starts with c1's own declaration
\* and holds c2's fragment.
C23_NestedClusterExports ==
    LET its == cl["c1"].items
        m == ClusterType_getModel_out(State, "c1")
    IN  ( /\ cl["c1"].published
          /\ ClusterType_validate(State, "c1") = "none"
          /\ \E k \in 1..Len(its) : its[k] = "c2"
          /\ cl["c2"].published
          /\ ClusterType_getModel(State, "c2") = "none"
          /\ \A k \in 1..Len(its) :
                its[k] \in AdIds => XdAdapterType_getModel(State, its[k]) = "none" )
        => /\ m.err = "none"
           /\ Len(m.out) > 0
           /\ m.out[1] = IdTok("mcuid", "c1")
           /\ \E k \in 1..Len(m.out) : m.out[k] = IdTok("mcuid", "c2")
           /\ \A rnd \in TreeDraws :
                 LET i == ClusterType_getXMLInstance(State, "c1", rnd)
                 IN  /\ i.err = "none"
                     /\ i.out[1] = IdTok("mcuid", "c1")
                     /\ \E k \in 1..Len(i.out) : i.out[k] = IdTok("mcuid", "c2")

\* C24: in every reachable state of an XdBooleanType true_value and
\* false_value are not both set, a set true_value is one of
\* options['trues'] and a set false_value one of options['falses'];
\* assigning a value to one of them while the other is set raises
\* ValueError and changes nothing.
C24_OneOfTrueFalse ==
    LET o == xd["x4"]
    IN  /\ ~(o.true_value # PyNone /\ o.false_value # PyNone)
        /\ o.true_value # PyNone => InList(o.true_value, o.options.trues)
        /\ o.false_value # PyNone => InList(o.false_value, o.options.falses)
        /\ \A v \in BoolArgs \ {PyNone} :
              /\ o.false_value # PyNone =>
                    /\ XdBooleanType_true_value(State, "x4", v).err = "ValueError"
                    /\ XdBooleanType_true_value(State, "x4", v).S = State
              /\ o.true_value # PyNone =>
                    /\ XdBooleanType_false_value(State, "x4", v).err = "ValueError"
                    /\ XdBooleanType_false_value(State, "x4", v).S = State

\* true_value was just refused on a boolean whose false_value is set
C24_Witness ==
    /\ last.op = "true_value"
    /\ last.err = "ValueError"
    /\ xd["x4"].false_value = PyStr("no")
    /\ xd["x4"].true_value = PyNone

\* C25: the link of an XdLinkType is assignable exactly when the component
\* is fixed and unpublished, or not fixed and published; a refused
\* assignment changes nothing, so a fixed link stays as it was at
\* publication; and a fixed XdLinkType that is published has a link.
C25_LinkWhenFixed ==
    LET o == xd["x5"]
    IN  /\ \A v \in LinkArgs :
              is_string(v) =>
                 /\ XdLinkType_link(State, "x5", v).err = "none"
                       <=> ((o.fixed /\ ~o.published) \/ (~o.fixed /\ o.published))
                 /\ (o.fixed /\ o.published) => XdLinkType_link(State, "x5", v).S = State
                 /\ (~o.fixed /\ ~o.published) => XdLinkType_link(State, "x5", v).S = State
        /\ (o.fixed /\ o.published) => o.link # ""

\* C26: on a published XdOrdinalType, assigning an ordinal that is not a
\* key of choices raises and changes nothing; and in every reachable state
\* an ordinal that is set is a key of choices and symbol is the symbol
\* choices gives for it.
C26_OrdinalInChoices ==
    LET o == xd["x6"]
    IN  /\ o.published =>
              \A v \in OrdinalArgs :
                  ~InKeys(v, o.choices) =>
                      /\ XdOrdinalType_ordinal(State, "x6", v).err # "none"
                      /\ XdOrdinalType_ordinal(State, "x6", v).S = State
        /\ o.ordinal # PyNone =>
              /\ InKeys(o.ordinal, o.choices)
              /\ o.symbol = PyStr(SymbolOf(o.choices, o.ordinal.n))

\* C27: once an XdRatioType is published, each of the eight num_ and den_
\* bound setters raises, whatever the value, and changes nothing.
C27_RatioBoundsFrozen ==
    xd["x7"].published =>
        \A f \in RatioBounds, v \in RatioBoundArgs :
            /\ XdRatioType_bound_set(State, "x7", f, v).err # "none"
            /\ XdRatioType_bound_set(State, "x7", f, v).S = State

\* C28: lower and upper of an XdIntervalType are instance fields: assigning
\* a value of the interval's type succeeds when the interval is published
\* and raises while it is unpublished.
C28_LimitsArePublishedOnly ==
    \A v \in {PyInt(1), PyNumStr(7)} :
        /\ XdIntervalType_lower(State, "x3", v).err = "none" <=> xd["x3"].published
        /\ XdIntervalType_upper(State, "x3", v).err = "none" <=> xd["x3"].published

\* C29: on an unpublished XdStringType, assigning default a string or None
\* returns and changes only the default facet, which then holds the
\* assigned value (None clears it); length, regex and enums keep their
\* values.
C29_DefaultChangesOnlyDefault ==
    ~xd["x1"].published =>
        \A v \in DefaultArgs :
            (v = PyNone \/ is_string(v)) =>
                /\ XdStringType_default(State, "x1", v).err = "none"
                /\ XdStringType_default(State, "x1", v).S = [State EXCEPT !.xd["x1"].default = v]

\* C30: on a published quantified type, assigning accuracy an integer in
\* 0..100 returns, accuracy then reads that integer and error is as it
\* was; assigning error an integer in 0..100 returns, error then reads
\* that integer and accuracy is as it was.
C30_AccuracyAndErrorApart ==
    \A x \in QuantIds :
        xd[x].published =>
            \A v \in {a \in PercentArgs : a.t = "int" /\ 0 <= a.n /\ a.n <= 100} :
                LET ra == XdQuantifiedType_accuracy(State, x, v)
                    re == XdQuantifiedType_error(State, x, v)
                IN  /\ ra.err = "none"
                    /\ ra.S.xd[x].accuracy = v
                    /\ ra.S.xd[x].error = xd[x].error
                    /\ re.err = "none"
                    /\ re.S.xd[x].error = v
                    /\ re.S.xd[x].accuracy = xd[x].accuracy

====
